---- MODULE Spec2Model ----
(***************************************************************************)
(* Shared buffer manager (src/backend/storage/buffer/bufmgr.c).            *)
(*                                                                         *)
(* Backends are processes with a program counter.  One action is one       *)
(* atomic step of the code: a compare-and-swap on a buffer's state word,   *)
(* a buffer-header spinlock section, or one call into the mapping table,   *)
(* the free list or the storage manager.  Acquiring a lightweight lock is  *)
(* folded into the step that follows it and releasing one into the step    *)
(* that precedes it.                                                       *)
(***************************************************************************)
EXTENDS Integers, FiniteSets, Sequences, TLC

\* ------------------------------------------------------------------ bounds
NBuffers == 2
NProcs == 2
NBlocks == 2
MaxPins == 2
MaxUsage == 1
InitBlocks == 1
MaxSpaces == 3
MaxPerSpace == 4
MantissaBits == 4
MaxSharedBuffers == 48
MaxMaxBackends == 4
MaxOverflowed == 2
MaxExtendBy == 5
MaxLSN == 2
BlockNumberBits == 3
MaxForks == 2
MaxDropBuffers == 100
InertBuffers == 62

\* --------------------------------------------------------- program constants
BM_MAX_USAGE_COUNT == 5
NUM_BUFFER_PARTITIONS == 2

Frames == 1..NBuffers
Procs == 1..NProcs
Tags == 1..NBlocks
NoTag == 0
NoBuf == 0
NoProc == 0

BM_IO_IN_PROGRESS == "IO_IN_PROGRESS"
BM_IO_ERROR == "IO_ERROR"
BM_VALID == "VALID"
BM_TAG_VALID == "TAG_VALID"
BM_DIRTY == "DIRTY"
BM_JUST_DIRTIED == "JUST_DIRTIED"
BM_CHECKPOINT_NEEDED == "CHECKPOINT_NEEDED"
BM_PERMANENT == "PERMANENT"
BM_PIN_COUNT_WAITER == "PIN_COUNT_WAITER"

RELPERSISTENCE_PERMANENT == "p"
RELPERSISTENCE_UNLOGGED == "u"

BUF_FLAG_MASK ==
  {BM_IO_IN_PROGRESS, BM_IO_ERROR, BM_VALID, BM_TAG_VALID, BM_DIRTY,
   BM_JUST_DIRTIED, BM_CHECKPOINT_NEEDED, BM_PERMANENT, BM_PIN_COUNT_WAITER}

VARIABLES
  tag,          \* BufferDesc.tag of every frame (NoTag = cleared tag)
  flags,        \* flag bits of the state word of every frame
  refcount,     \* BUF_STATE_GET_REFCOUNT of every frame
  usage,        \* BUF_STATE_GET_USAGECOUNT of every frame
  map,          \* buffer mapping table: tag -> frame, NoBuf when absent
  plock,        \* exclusive holder of every mapping partition lock
  clockX,       \* exclusive holder of every frame's content lock
  clockS,       \* share holders of every frame's content lock
  priv,         \* PrivateRefCount of every process for every frame
  freelist,     \* free list of the strategy module, head first
  nextVictim,   \* clock-sweep cursor
  nblocks,      \* size of the relation fork according to smgr
  relpersist,   \* relpersistence of the relation
  extlock,      \* holder of the relation extension lock
  ckpt,         \* BufferSync of the checkpointer: CkptBufferIds and progress
  zero_damaged_pages, \* the setting of that name
  per_ts_stat,  \* BufferSync: CkptTsStatus of every tablespace it writes to
  additional_pins, \* LimitAdditionalPins: the call and *additional_pins
  xlog,         \* page LSN of every buffer, WAL insert and flush pointers
  hdrlock,      \* holder of every frame's header spinlock (BM_LOCKED)
  wait_backend_pgprocno, \* BufferDesc.wait_backend_pgprocno of every frame
  latch,        \* processes whose latch is set (ProcSendSignal)
  iocv,         \* sleepers on every frame's I/O condition variable
  ghost,        \* history: what the claims need to remember
  pc,           \* position of every process
  lv            \* local variables of every process

vars == <<tag, flags, refcount, usage, map, plock, clockX, clockS, priv,
          freelist, nextVictim, nblocks, relpersist, extlock, ckpt,
          zero_damaged_pages, per_ts_stat, additional_pins, xlog,
          hdrlock, wait_backend_pgprocno, latch, iocv, ghost,
          pc, lv>>

frameVars == <<tag, flags, refcount, usage>>
lockVars == <<clockX, clockS>>
waitVars == <<hdrlock, wait_backend_pgprocno, latch, iocv>>
envVars ==
  <<nblocks, relpersist, extlock, ckpt,
    zero_damaged_pages, per_ts_stat, additional_pins, xlog, waitVars>>

\* ------------------------------------------------------------------ tags
spcOid(t) == 1
relNumber(t) == 1
blockNum(t) == t - 1
TagOfBlock(b) == b + 1

BufTableHashCode(t) == t
BufMappingPartitionLock(h) == h % NUM_BUFFER_PARTITIONS
Part(t) == BufMappingPartitionLock(BufTableHashCode(t))

\* --------------------------------------------------------- local variables
\* ReadBufferMode, as far as ReadBuffer_common tells the modes apart here.
RBM_NORMAL == "RBM_NORMAL"
RBM_ZERO_AND_LOCK == "RBM_ZERO_AND_LOCK"
RBM_ZERO_AND_CLEANUP_LOCK == "RBM_ZERO_AND_CLEANUP_LOCK"

\* No call of LimitAdditionalPins is under way.
NoCall == [pc |-> "none"]

NoLocals ==
  [op |-> "none", tag |-> NoTag, buf |-> NoBuf, vic |-> NoBuf,
   bdirty |-> FALSE, btagvalid |-> FALSE, forInput |-> FALSE,
   otag |-> NoTag, try |-> 0, found |-> FALSE,
   fctx |-> "none", existing |-> FALSE, i |-> 0, first |-> 0, mask |-> {},
   waitbuf |-> NoBuf, recptr |-> 0, mode |-> RBM_NORMAL,
   nForkBlock |-> <<>>, firstDelBlock |-> <<>>, nbuffers |-> 0,
   lookup |-> FALSE]

\* No WAL has been written and no page bears an LSN.
NoWal == [lsn |-> [f \in 1..NBuffers |-> 0], insert |-> 0, flush |-> 0]

Goto(p, l) == pc' = [pc EXCEPT ![p] = l]
Local(p, r) == lv' = [lv EXCEPT ![p] = r]

\* History of the running BufferSync: the frames that were dirty when it
\* was called, those of them its mask selects, and the frames written since.
NoCheckpoint(g) ==
  [io |-> g.io, ck |-> FALSE, ckdirty |-> {}, ckmask |-> {}, written |-> {}]

\* The pool after InitBufferPool, for a relation of n blocks whose
\* persistence is one of S.
InitBufferPool(n, S) ==
  /\ tag = [f \in Frames |-> NoTag]
  /\ flags = [f \in Frames |-> {}]
  /\ refcount = [f \in Frames |-> 0]
  /\ usage = [f \in Frames |-> 0]
  /\ map = [t \in Tags |-> NoBuf]
  /\ plock = [k \in 0..(NUM_BUFFER_PARTITIONS - 1) |-> NoProc]
  /\ clockX = [f \in Frames |-> NoProc]
  /\ clockS = [f \in Frames |-> {}]
  /\ priv = [p \in Procs |-> [f \in Frames |-> 0]]
  /\ freelist = <<>>
  /\ nextVictim = 0
  /\ nblocks = n
  /\ relpersist \in S
  /\ extlock = NoProc
  /\ ckpt = <<>>
  /\ zero_damaged_pages = FALSE
  /\ per_ts_stat = <<>>
  /\ additional_pins = NoCall
  /\ xlog = NoWal
  /\ hdrlock = [f \in Frames |-> NoProc]
  /\ wait_backend_pgprocno = [f \in Frames |-> NoProc]
  /\ latch = {}
  /\ iocv = [f \in Frames |-> {}]
  /\ ghost = NoCheckpoint([io |-> [f \in Frames |-> {}]])
  /\ pc = [p \in Procs |-> "idle"]
  /\ lv = [p \in Procs |-> NoLocals]

Init == InitBufferPool(InitBlocks, {RELPERSISTENCE_PERMANENT})


\* ------------------------------------------------ pin / unpin (lock free)
Pinned(p, b) == priv[p][b] > 0

\* Variant: A PinBuffer that reports every buffer as valid.
PinBufferResult_Valid(p, b) == TRUE

\* PinBuffer with the default strategy: the value it returns.
PinBufferResult(p, b) ==
  IF priv[p][b] = 0 THEN BM_VALID \in flags[b] ELSE TRUE

\* PinBuffer with the default strategy: the compare-and-swap waits for
\* BM_LOCKED to be clear; only a first pin touches the shared state word.
PinBuffer(p, b) ==
  /\ refcount' = IF priv[p][b] = 0
                 THEN [refcount EXCEPT ![b] = @ + 1] ELSE refcount
  /\ usage' = IF priv[p][b] = 0 /\ usage[b] < BM_MAX_USAGE_COUNT
                 /\ usage[b] < MaxUsage
              THEN [usage EXCEPT ![b] = @ + 1] ELSE usage
  /\ priv' = [priv EXCEPT ![p][b] = @ + 1]

\* PinBuffer_Locked: the caller holds the header spinlock and has no pin;
\* the count is raised and the spinlock released in one write.
PinBuffer_Locked(p, b) ==
  /\ refcount' = [refcount EXCEPT ![b] = @ + 1]
  /\ priv' = [priv EXCEPT ![p][b] = @ + 1]

\* Variant: An UnpinBuffer that drops the shared count on every release.
UnpinBuffer_Always(p, b) ==
  /\ priv[p][b] > 0
  /\ priv' = [priv EXCEPT ![p][b] = @ - 1]
  /\ refcount' = [refcount EXCEPT ![b] = @ - 1]

\* UnpinBuffer: the shared count drops when the local count reaches zero.
UnpinBuffer(p, b) ==
  /\ priv[p][b] > 0
  /\ priv' = [priv EXCEPT ![p][b] = @ - 1]
  /\ refcount' = IF priv[p][b] = 1
                 THEN [refcount EXCEPT ![b] = @ - 1] ELSE refcount

\* ------------------------------------------------------- mapping table
BufTableLookup(t) == map[t]
BufTableInsert(t, b) ==
  map' = IF map[t] = NoBuf THEN [map EXCEPT ![t] = b] ELSE map
BufTableDelete(t) == map' = [map EXCEPT ![t] = NoBuf]

\* --------------------------------------------------------- free list
InList(s, b) == \E i \in 1..Len(s) : s[i] = b
StrategyFreeBuffer(b) ==
  freelist' = IF InList(freelist, b) THEN freelist ELSE <<b>> \o freelist

\* -------------------------------------------------------- I/O gate
\* Variant: A TerminateBufferIO that ignores clear_dirty.
TerminateBufferIO_KeepDirty(fl, clear_dirty, set_flag_bits) ==
  (fl \ {BM_IO_IN_PROGRESS, BM_IO_ERROR}) \cup set_flag_bits

\* Variant: A TerminateBufferIO that leaves BM_IO_IN_PROGRESS set.
TerminateBufferIO_KeepInProgress(fl, clear_dirty, set_flag_bits) ==
  LET a == fl \ {BM_IO_ERROR}
      c == IF clear_dirty /\ BM_JUST_DIRTIED \notin a
           THEN a \ {BM_DIRTY, BM_CHECKPOINT_NEEDED} ELSE a
  IN  c \cup set_flag_bits

\* Variant: A TerminateBufferIO that clears BM_DIRTY whether or not the
\* buffer was dirtied again.
TerminateBufferIO_IgnoreJustDirtied(fl, clear_dirty, set_flag_bits) ==
  LET a == fl \ {BM_IO_IN_PROGRESS, BM_IO_ERROR}
      c == IF clear_dirty
           THEN a \ {BM_DIRTY, BM_CHECKPOINT_NEEDED} ELSE a
  IN  c \cup set_flag_bits

\* Variant: A TerminateBufferIO that leaves BM_CHECKPOINT_NEEDED set.
TerminateBufferIO_KeepCheckpointNeeded(fl, clear_dirty, set_flag_bits) ==
  LET a == fl \ {BM_IO_IN_PROGRESS, BM_IO_ERROR}
      c == IF clear_dirty /\ BM_JUST_DIRTIED \notin a
           THEN a \ {BM_DIRTY} ELSE a
  IN  c \cup set_flag_bits

\* TerminateBufferIO: clear BM_IO_IN_PROGRESS and BM_IO_ERROR, clear BM_DIRTY
\* and BM_CHECKPOINT_NEEDED if asked to and the buffer was not dirtied again,
\* set set_flag_bits.
TerminateBufferIO(fl, clear_dirty, set_flag_bits) ==
  LET a == fl \ {BM_IO_IN_PROGRESS, BM_IO_ERROR}
      c == IF clear_dirty /\ BM_JUST_DIRTIED \notin a
           THEN a \ {BM_DIRTY, BM_CHECKPOINT_NEEDED} ELSE a
  IN  c \cup set_flag_bits

\* Variant: A StartBufferIO that never waits for I/O in progress.
StartBufferIOBusy_Never(fl) == FALSE

\* StartBufferIO: the loop waits while this holds.
StartBufferIOBusy(fl) == BM_IO_IN_PROGRESS \in fl

\* Variant: A StartBufferIO that always tells the caller to do the I/O.
StartBufferIOMustDo_Always(fl, forInput) == TRUE

\* StartBufferIO once no I/O is active: TRUE when the caller must do the I/O.
StartBufferIOMustDo(fl, forInput) ==
  IF forInput THEN BM_VALID \notin fl ELSE BM_DIRTY \in fl

\* ------------------------------------------------------ BufferAlloc
\* ReadBuffer_common -> BufferAlloc: lookup under the shared partition lock;
\* on a hit pin the buffer before the lock is released.
ReadBuffer_common(p, mode) ==
  /\ pc[p] = "idle"
  /\ \E t \in Tags :
       /\ plock[Part(t)] = NoProc
       /\ LET b == BufTableLookup(t) IN
          IF b # NoBuf
          THEN /\ priv[p][b] < MaxPins
               /\ PinBuffer(p, b)
               /\ IF PinBufferResult(p, b)
                  THEN /\ Goto(p, "RB_ret")
                       /\ Local(p, [NoLocals EXCEPT !.op = "read", !.tag = t,
                                      !.buf = b, !.found = TRUE,
                                      !.mode = mode])
                  ELSE /\ Goto(p, "SIO")
                       /\ Local(p, [NoLocals EXCEPT !.op = "read", !.tag = t,
                                      !.buf = b, !.forInput = TRUE,
                                      !.mode = mode])
               /\ UNCHANGED <<tag, flags>>
          ELSE /\ Goto(p, "GVB")
               /\ Local(p, [NoLocals EXCEPT !.op = "read", !.tag = t,
                              !.try = NBuffers, !.mode = mode])
               /\ UNCHANGED <<frameVars, priv>>
  /\ UNCHANGED <<map, plock, lockVars, freelist, nextVictim, envVars, ghost>>

\* ReadBuffer and ReadBufferExtended(..., RBM_NORMAL, NULL).
BufferAlloc_Lookup(p) == ReadBuffer_common(p, RBM_NORMAL)

\* Where GetVictimBuffer returns to.
GVBReturn(p) == IF lv[p].op = "read" THEN "BA_insert" ELSE "EX_victim"

\* What GetVictimBuffer does with the victim StrategyGetBuffer returned with
\* its header spinlock held: PinBuffer_Locked, then decide from the state
\* word StrategyGetBuffer read.
GetVictimBuffer_Pin(p, b) ==
  /\ PinBuffer_Locked(p, b)
  /\ Local(p, [lv[p] EXCEPT !.buf = b, !.try = 0,
                 !.bdirty = BM_DIRTY \in flags[b],
                 !.btagvalid = BM_TAG_VALID \in flags[b],
                 !.otag = IF BM_TAG_VALID \in flags[b] THEN tag[b] ELSE NoTag])
  /\ Goto(p, IF BM_DIRTY \in flags[b] THEN "GVB_dirty"
             ELSE IF BM_TAG_VALID \in flags[b] THEN "IVB" ELSE GVBReturn(p))

\* Variant: A clock sweep that never gives up: it goes on past pinned frames
\* for as long as it finds no victim.
StrategyGetBuffer_NoLimit(p) ==
  /\ pc[p] = "GVB"
  /\ IF freelist # <<>>
     THEN LET b == Head(freelist) IN
          /\ freelist' = Tail(freelist)
          /\ UNCHANGED <<nextVictim, usage>>
          /\ IF refcount[b] = 0 /\ usage[b] = 0
             THEN GetVictimBuffer_Pin(p, b)
             ELSE UNCHANGED <<refcount, priv, lv, pc>>
     ELSE LET b == nextVictim + 1 IN
          /\ nextVictim' = (nextVictim + 1) % NBuffers
          /\ UNCHANGED freelist
          /\ IF refcount[b] = 0
             THEN IF usage[b] # 0
                  THEN /\ usage' = [usage EXCEPT ![b] = @ - 1]
                       /\ Local(p, [lv[p] EXCEPT !.try = NBuffers])
                       /\ UNCHANGED <<refcount, priv, pc>>
                  ELSE /\ GetVictimBuffer_Pin(p, b)
                       /\ UNCHANGED usage
             ELSE /\ UNCHANGED <<refcount, priv, usage, pc>>
                  /\ Local(p, [lv[p] EXCEPT
                                 !.try = IF @ = 1 THEN NBuffers ELSE @ - 1])
  /\ UNCHANGED <<tag, flags, map, plock, lockVars, envVars, ghost>>

\* GetVictimBuffer -> StrategyGetBuffer, one candidate: the head of the free
\* list, else the frame under the clock hand.  An unpinned frame with usage
\* count zero is the victim; it is pinned before the spinlock is released.
StrategyGetBuffer(p) ==
  /\ pc[p] = "GVB"
  /\ IF freelist # <<>>
     THEN LET b == Head(freelist) IN
          /\ freelist' = Tail(freelist)
          /\ UNCHANGED <<nextVictim, usage>>
          /\ IF refcount[b] = 0 /\ usage[b] = 0
             THEN GetVictimBuffer_Pin(p, b)
             ELSE UNCHANGED <<refcount, priv, lv, pc>>
     ELSE LET b == nextVictim + 1 IN
          /\ nextVictim' = (nextVictim + 1) % NBuffers
          /\ UNCHANGED freelist
          /\ IF refcount[b] = 0
             THEN IF usage[b] # 0
                  THEN /\ usage' = [usage EXCEPT ![b] = @ - 1]
                       /\ Local(p, [lv[p] EXCEPT !.try = NBuffers])
                       /\ UNCHANGED <<refcount, priv, pc>>
                  ELSE /\ GetVictimBuffer_Pin(p, b)
                       /\ UNCHANGED usage
             ELSE /\ UNCHANGED <<refcount, priv, usage>>
                  /\ IF lv[p].try = 1
                     THEN /\ Goto(p, "ERR_release")
                          /\ Local(p, [lv[p] EXCEPT !.try = 0])
                     ELSE /\ Local(p, [lv[p] EXCEPT !.try = @ - 1])
                          /\ UNCHANGED pc
  /\ UNCHANGED <<tag, flags, map, plock, lockVars, envVars, ghost>>

\* Variant: An in-use test that looks at BM_DIRTY only, not at the pin count.
InvalidateVictimBuffer_InUse_DirtyOnly(b) == BM_DIRTY \in flags[b]

\* Variant: An in-use test that looks at the pin count only, not at BM_DIRTY.
InvalidateVictimBuffer_InUse_PinOnly(b) == refcount[b] # 1

\* InvalidateVictimBuffer: somebody else pinned the buffer, or dirtied it.
InvalidateVictimBuffer_InUse(b) ==
  refcount[b] # 1 \/ BM_DIRTY \in flags[b]

\* InvalidateVictimBuffer: under the exclusive partition lock and the header
\* spinlock, give up if somebody else pinned or dirtied the buffer, else
\* clear the tag, the flags and the usage count.
InvalidateVictimBuffer(p) ==
  /\ pc[p] = "IVB"
  /\ LET b == lv[p].buf IN
     /\ plock[Part(lv[p].otag)] = NoProc
     /\ IF InvalidateVictimBuffer_InUse(b)
        THEN /\ Goto(p, "GVB_unpin")
             /\ UNCHANGED <<tag, flags, usage, plock>>
        ELSE /\ plock' = [plock EXCEPT ![Part(lv[p].otag)] = p]
             /\ tag' = [tag EXCEPT ![b] = NoTag]
             /\ flags' = [flags EXCEPT ![b] = @ \ BUF_FLAG_MASK]
             /\ usage' = [usage EXCEPT ![b] = 0]
             /\ Goto(p, "IVB_delete")
  /\ UNCHANGED <<refcount, map, lockVars, priv, freelist, nextVictim,
                 envVars, ghost, lv>>

\* Variant: An InvalidateVictimBuffer that leaves the entry in the mapping table.
InvalidateVictimBuffer_KeepEntry(p) ==
  /\ pc[p] = "IVB_delete"
  /\ plock' = [plock EXCEPT ![Part(lv[p].otag)] = NoProc]
  /\ Local(p, [lv[p] EXCEPT !.otag = NoTag, !.bdirty = FALSE,
                 !.btagvalid = FALSE])
  /\ Goto(p, GVBReturn(p))
  /\ UNCHANGED <<frameVars, map, lockVars, priv, freelist, nextVictim,
                 envVars, ghost>>

\* InvalidateVictimBuffer: BufTableDelete, then release the partition lock.
InvalidateVictimBuffer_Delete(p) ==
  /\ pc[p] = "IVB_delete"
  /\ BufTableDelete(lv[p].otag)
  /\ plock' = [plock EXCEPT ![Part(lv[p].otag)] = NoProc]
  /\ Local(p, [lv[p] EXCEPT !.otag = NoTag, !.bdirty = FALSE,
                 !.btagvalid = FALSE])
  /\ Goto(p, GVBReturn(p))
  /\ UNCHANGED <<frameVars, lockVars, priv, freelist, nextVictim, envVars,
                 ghost>>

\* Variant: A GetVictimBuffer that starts again with the candidate pinned.
GetVictimBuffer_Unpin_KeepPin(p) ==
  /\ pc[p] = "GVB_unpin"
  /\ Local(p, [lv[p] EXCEPT !.buf = NoBuf, !.bdirty = FALSE,
                 !.btagvalid = FALSE, !.otag = NoTag, !.try = NBuffers])
  /\ Goto(p, "GVB")
  /\ UNCHANGED <<frameVars, map, plock, lockVars, priv, freelist,
                 nextVictim, envVars, ghost>>

\* GetVictimBuffer: the candidate is in use, unpin it and start again.
GetVictimBuffer_Unpin(p) ==
  /\ pc[p] = "GVB_unpin"
  /\ UnpinBuffer(p, lv[p].buf)
  /\ Local(p, [lv[p] EXCEPT !.buf = NoBuf, !.bdirty = FALSE,
                 !.btagvalid = FALSE, !.otag = NoTag, !.try = NBuffers])
  /\ Goto(p, "GVB")
  /\ UNCHANGED <<tag, flags, usage, map, plock, lockVars, freelist,
                 nextVictim, envVars, ghost>>


\* Variant: A BufferAlloc that overwrites the entry instead of detecting a collision.
BufferAlloc_Insert_NoCollision(p) ==
  /\ pc[p] = "BA_insert"
  /\ plock[Part(lv[p].tag)] = NoProc
  /\ plock' = [plock EXCEPT ![Part(lv[p].tag)] = p]
  /\ map' = [map EXCEPT ![lv[p].tag] = lv[p].buf]
  /\ Goto(p, "BA_settag")
  /\ UNCHANGED <<frameVars, lockVars, priv, freelist, nextVictim, envVars,
                 ghost, lv>>

\* BufferAlloc: BufTableInsert under the exclusive partition lock.  On a
\* collision give up the victim: UnpinBuffer is the first step of that.
BufferAlloc_Insert(p) ==
  /\ pc[p] = "BA_insert"
  /\ plock[Part(lv[p].tag)] = NoProc
  /\ plock' = [plock EXCEPT ![Part(lv[p].tag)] = p]
  /\ BufTableInsert(lv[p].tag, lv[p].buf)
  /\ IF BufTableLookup(lv[p].tag) # NoBuf
     THEN /\ UnpinBuffer(p, lv[p].buf)
          /\ Local(p, [lv[p] EXCEPT !.vic = lv[p].buf,
                         !.buf = BufTableLookup(lv[p].tag)])
          /\ Goto(p, "BA_free")
     ELSE /\ UNCHANGED <<refcount, priv, lv>>
          /\ Goto(p, "BA_settag")
  /\ UNCHANGED <<tag, flags, usage, lockVars, freelist, nextVictim,
                 envVars, ghost>>

\* Variant: A BufferAlloc that does not return the victim to the free list.
BufferAlloc_FreeVictim_Skip(p) ==
  /\ pc[p] = "BA_free"
  /\ Local(p, [lv[p] EXCEPT !.vic = NoBuf])
  /\ Goto(p, "BA_pin")
  /\ UNCHANGED <<frameVars, map, plock, lockVars, priv, freelist, nextVictim,
                 envVars, ghost>>

\* BufferAlloc, collision: StrategyFreeBuffer(victim).
BufferAlloc_FreeVictim(p) ==
  /\ pc[p] = "BA_free"
  /\ StrategyFreeBuffer(lv[p].vic)
  /\ Local(p, [lv[p] EXCEPT !.vic = NoBuf])
  /\ Goto(p, "BA_pin")
  /\ UNCHANGED <<frameVars, map, plock, lockVars, priv, nextVictim, envVars,
                 ghost>>

\* BufferAlloc, collision: pin the existing buffer, release the partition
\* lock.
BufferAlloc_PinExisting(p) ==
  /\ pc[p] = "BA_pin"
  /\ PinBuffer(p, lv[p].buf)
  /\ plock' = [plock EXCEPT ![Part(lv[p].tag)] = NoProc]
  /\ IF PinBufferResult(p, lv[p].buf)
     THEN /\ Goto(p, "RB_ret")
          /\ Local(p, [lv[p] EXCEPT !.found = TRUE])
     ELSE /\ Goto(p, "SIO")
          /\ Local(p, [lv[p] EXCEPT !.forInput = TRUE])
  /\ UNCHANGED <<tag, flags, map, lockVars, freelist, nextVictim,
                 envVars, ghost>>

\* BufferAlloc, no collision: set the victim's tag and flags under the header
\* spinlock, release the partition lock.
BufferAlloc_SetTag(p) ==
  /\ pc[p] = "BA_settag"
  /\ LET b == lv[p].buf IN
     /\ tag' = [tag EXCEPT ![b] = lv[p].tag]
     /\ flags' = [flags EXCEPT ![b] =
                    @ \cup {BM_TAG_VALID}
                      \cup (IF relpersist = RELPERSISTENCE_PERMANENT
                          THEN {BM_PERMANENT} ELSE {})]
     /\ usage' = [usage EXCEPT ![b] = IF @ % 2 = 0 THEN @ + 1 ELSE @]
  /\ plock' = [plock EXCEPT ![Part(lv[p].tag)] = NoProc]
  /\ Local(p, [lv[p] EXCEPT !.forInput = TRUE])
  /\ Goto(p, "SIO")
  /\ UNCHANGED <<refcount, map, lockVars, priv, freelist, nextVictim,
                 envVars, ghost>>


\* ------------------------------------------------------- content locks
HoldsContentLock(p, b) == clockX[b] = p \/ p \in clockS[b]
CanLockShared(p, b) == clockX[b] = NoProc
CanLockExclusive(p, b) == clockX[b] = NoProc /\ clockS[b] = {}
LWLockRelease_Content(p, b) ==
  /\ clockX' = [clockX EXCEPT ![b] = IF @ = p THEN NoProc ELSE @]
  /\ clockS' = [clockS EXCEPT ![b] = @ \ {p}]

\* ----------------------------------------- StartBufferIO and its callers
\* Where a caller continues when StartBufferIO returned r.
AfterStartBufferIO(p, r) ==
  IF lv[p].forInput
  THEN IF lv[p].op = "extend"
       THEN IF r \/ ~lv[p].existing THEN "EX_next" ELSE "EX_ghost"
       ELSE IF r THEN "RB_read" ELSE "RB_ret"
  ELSE IF r THEN "FB_lsn"
       ELSE IF lv[p].fctx = "gvb"
            THEN IF lv[p].btagvalid THEN "IVB" ELSE GVBReturn(p)
            ELSE IF lv[p].fctx = "sync" THEN "SOB_unpin" ELSE "idle"

\* Locals after FlushBuffer returned to its caller.
AfterFlushLocals(p) ==
  IF lv[p].fctx = "one" THEN NoLocals
  ELSE [lv[p] EXCEPT !.fctx = "none", !.forInput = FALSE, !.recptr = 0]

\* StartBufferIO: under the header spinlock; wait while an I/O is active.
\* When FlushBuffer returns at once to GetVictimBuffer or SyncOneBuffer the
\* caller's release of the content lock is part of the step.
StartBufferIO(p) ==
  /\ pc[p] = "SIO"
  /\ LET b == lv[p].buf IN
     /\ IF StartBufferIOBusy(flags[b])
        THEN /\ Goto(p, "WaitIO")
             /\ UNCHANGED <<flags, ghost, lockVars, lv>>
        ELSE IF StartBufferIOMustDo(flags[b], lv[p].forInput)
        THEN /\ flags' = [flags EXCEPT ![b] = @ \cup {BM_IO_IN_PROGRESS}]
             /\ ghost' = [ghost EXCEPT !.io[b] = @ \cup {p}]
             /\ Goto(p, AfterStartBufferIO(p, TRUE))
             /\ Local(p, [lv[p] EXCEPT !.found = FALSE])
             /\ UNCHANGED lockVars
        ELSE /\ Goto(p, AfterStartBufferIO(p, FALSE))
             /\ IF lv[p].forInput
                THEN /\ Local(p, [lv[p] EXCEPT !.found = TRUE])
                     /\ UNCHANGED lockVars
                ELSE /\ Local(p, AfterFlushLocals(p))
                     /\ IF lv[p].fctx \in {"gvb", "sync"}
                        THEN LWLockRelease_Content(p, b)
                        ELSE UNCHANGED lockVars
             /\ UNCHANGED <<flags, ghost>>
  /\ UNCHANGED <<tag, refcount, usage, map, plock, priv, freelist,
                 nextVictim, envVars>>

\* WaitIO: sleep on the I/O condition variable until BM_IO_IN_PROGRESS is
\* found clear under the header spinlock.
WaitIO(p) ==
  /\ pc[p] = "WaitIO"
  /\ BM_IO_IN_PROGRESS \notin flags[lv[p].buf]
  /\ Goto(p, IF lv[p].op = "drop" THEN "IB_retry" ELSE "SIO")
  /\ UNCHANGED <<frameVars, map, plock, lockVars, priv, freelist, nextVictim,
                 envVars, ghost, lv>>

\* ReadBuffer_common: smgrread into the buffer, then
\* TerminateBufferIO(bufHdr, false, BM_VALID); smgrread may raise instead,
\* and does raise for a block beyond the end of the file unless
\* zero_damaged_pages makes it hand back a page of zeroes.
ReadBuffer_Read(p) ==
  /\ pc[p] = "RB_read"
  /\ lv[p].mode = RBM_NORMAL
  /\ LET b == lv[p].buf IN
     \/ /\ blockNum(lv[p].tag) < nblocks \/ zero_damaged_pages
        /\ flags' = [flags EXCEPT ![b] =
                       TerminateBufferIO(@, FALSE, {BM_VALID})]
        /\ ghost' = [ghost EXCEPT !.io[b] = @ \ {p}]
        /\ Goto(p, "RB_ret")
     \/ /\ Goto(p, "ERR_abort")
        /\ UNCHANGED <<flags, ghost>>
  /\ UNCHANGED <<tag, refcount, usage, map, plock, lockVars, priv,
                 freelist, nextVictim, envVars, lv>>

\* Variant: A ReadBuffer_common that zeroes the page and marks it valid
\* without taking the content lock first.
ReadBuffer_Zero_NoLock(p) ==
  /\ pc[p] = "RB_read"
  /\ lv[p].mode # RBM_NORMAL
  /\ Goto(p, "RB_valid")
  /\ UNCHANGED <<frameVars, map, plock, lockVars, priv, freelist, nextVictim,
                 envVars, ghost, lv>>

\* ReadBuffer_common in RBM_ZERO_AND_LOCK or RBM_ZERO_AND_CLEANUP_LOCK mode,
\* buffer not found: MemSet instead of smgrread, then LWLockAcquire of the
\* content lock, LW_EXCLUSIVE.
ReadBuffer_Zero(p) ==
  /\ pc[p] = "RB_read"
  /\ lv[p].mode # RBM_NORMAL
  /\ CanLockExclusive(p, lv[p].buf)
  /\ clockX' = [clockX EXCEPT ![lv[p].buf] = p]
  /\ Goto(p, "RB_valid")
  /\ UNCHANGED <<frameVars, map, plock, clockS, priv, freelist, nextVictim,
                 envVars, ghost, lv>>

\* ... and then TerminateBufferIO(bufHdr, false, BM_VALID).
ReadBuffer_Zero_Terminate(p) ==
  /\ pc[p] = "RB_valid"
  /\ LET b == lv[p].buf IN
     /\ flags' = [flags EXCEPT ![b] =
                    TerminateBufferIO(@, FALSE, {BM_VALID})]
     /\ ghost' = [ghost EXCEPT !.io[b] = @ \ {p}]
  /\ Goto(p, "RB_ret")
  /\ UNCHANGED <<tag, refcount, usage, map, plock, lockVars, priv,
                 freelist, nextVictim, envVars, lv>>

\* ReadBuffer_common in RBM_ZERO_AND_LOCK mode, buffer found: LWLockAcquire
\* of the content lock, LW_EXCLUSIVE, and return.
ReadBuffer_Found_Lock(p) ==
  /\ pc[p] = "RB_ret"
  /\ lv[p].found /\ lv[p].mode = RBM_ZERO_AND_LOCK
  /\ CanLockExclusive(p, lv[p].buf)
  /\ clockX' = [clockX EXCEPT ![lv[p].buf] = p]
  /\ Goto(p, "idle")
  /\ Local(p, NoLocals)
  /\ UNCHANGED <<frameVars, map, plock, clockS, priv, freelist, nextVictim,
                 envVars, ghost>>

\* ReadBuffer_common in RBM_ZERO_AND_CLEANUP_LOCK mode, buffer found:
\* LockBufferForCleanup, which raises for a caller with more than one pin of
\* its own and else returns with the exclusive lock once it finds the
\* caller's pin to be the only one.
ReadBuffer_Found_Cleanup(p) ==
  /\ pc[p] = "RB_ret"
  /\ lv[p].found /\ lv[p].mode = RBM_ZERO_AND_CLEANUP_LOCK
  /\ LET b == lv[p].buf IN
     IF priv[p][b] # 1
     THEN /\ Goto(p, "ERR_release")
          /\ UNCHANGED <<clockX, lv>>
     ELSE /\ CanLockExclusive(p, b) /\ refcount[b] = 1
          /\ clockX' = [clockX EXCEPT ![b] = p]
          /\ Goto(p, "idle")
          /\ Local(p, NoLocals)
  /\ UNCHANGED <<frameVars, map, plock, clockS, priv, freelist, nextVictim,
                 envVars, ghost>>

\* ReadBuffer_common returns the pinned buffer to its caller.
ReadBuffer_Return(p) ==
  /\ pc[p] = "RB_ret"
  /\ lv[p].mode = RBM_NORMAL \/ ~lv[p].found
  /\ Goto(p, "idle")
  /\ Local(p, NoLocals)
  /\ UNCHANGED <<frameVars, map, plock, lockVars, priv, freelist, nextVictim,
                 envVars, ghost>>

\* ------------------------------------------------------ error cleanup
\* Variant: An AbortBufferIO that ends the I/O as if the write had been done.
AbortBufferIO_ClearDirty(p) ==
  /\ pc[p] = "ERR_abort"
  /\ LET b == lv[p].buf IN
     /\ flags' = [flags EXCEPT ![b] = TerminateBufferIO(@, TRUE, {BM_IO_ERROR})]
     /\ ghost' = [ghost EXCEPT !.io[b] = @ \ {p}]
  /\ clockX' = [f \in Frames |-> IF clockX[f] = p THEN NoProc ELSE clockX[f]]
  /\ clockS' = [f \in Frames |-> clockS[f] \ {p}]
  /\ Goto(p, "ERR_release")
  /\ UNCHANGED <<tag, refcount, usage, map, plock, priv, freelist,
                 nextVictim, envVars, lv>>

\* An error was raised: LWLockReleaseAll, then AbortBufferIO for the I/O the
\* process had in progress: TerminateBufferIO(buf, false, BM_IO_ERROR).
AbortBufferIO(p) ==
  /\ pc[p] = "ERR_abort"
  /\ LET b == lv[p].buf IN
     /\ flags' = [flags EXCEPT ![b] = TerminateBufferIO(@, FALSE, {BM_IO_ERROR})]
     /\ ghost' = [ghost EXCEPT !.io[b] = @ \ {p}]
  /\ clockX' = [f \in Frames |-> IF clockX[f] = p THEN NoProc ELSE clockX[f]]
  /\ clockS' = [f \in Frames |-> clockS[f] \ {p}]
  /\ Goto(p, "ERR_release")
  /\ UNCHANGED <<tag, refcount, usage, map, plock, priv, freelist,
                 nextVictim, envVars, lv>>

\* Error cleanup releases the buffer pins of the process, one buffer per
\* step: ReleaseBuffer until the local count is zero; the heavyweight locks
\* (the relation extension lock) go last.
ErrorRelease(p) ==
  /\ pc[p] = "ERR_release"
  /\ IF \E b \in Frames : Pinned(p, b)
     THEN \E b \in Frames :
            /\ Pinned(p, b)
            /\ priv' = [priv EXCEPT ![p][b] = 0]
            /\ refcount' = [refcount EXCEPT ![b] = @ - 1]
            /\ UNCHANGED <<pc, lv, lockVars, extlock, ckpt, ghost>>
     ELSE /\ Goto(p, "idle")
          /\ Local(p, NoLocals)
          /\ clockX' = [f \in Frames |-> IF clockX[f] = p THEN NoProc
                                          ELSE clockX[f]]
          /\ clockS' = [f \in Frames |-> clockS[f] \ {p}]
          /\ extlock' = IF extlock = p THEN NoProc ELSE extlock
          /\ ckpt' = IF lv[p].op = "sync" THEN <<>> ELSE ckpt
          /\ ghost' = IF lv[p].op = "sync" THEN NoCheckpoint(ghost) ELSE ghost
          /\ UNCHANGED <<priv, refcount>>
  /\ UNCHANGED <<tag, flags, usage, map, plock, freelist, nextVictim,
                 nblocks, relpersist, zero_damaged_pages, per_ts_stat,
                 additional_pins, xlog,
                 waitVars>>

\* ------------------------------------------- operations on a pinned buffer
\* ReleaseBuffer -> UnpinBuffer.
ReleaseBuffer(p) ==
  /\ pc[p] = "idle"
  /\ \E b \in Frames :
       /\ Pinned(p, b)
       /\ priv[p][b] = 1 => ~HoldsContentLock(p, b)
       /\ UnpinBuffer(p, b)
  /\ UNCHANGED <<tag, flags, usage, map, plock, lockVars, freelist,
                 nextVictim, envVars, ghost, pc, lv>>

\* IncrBufferRefCount: only the local count changes.
IncrBufferRefCount(p) ==
  /\ pc[p] = "idle"
  /\ \E b \in Frames :
       /\ Pinned(p, b)
       /\ priv[p][b] < MaxPins
       /\ priv' = [priv EXCEPT ![p][b] = @ + 1]
  /\ UNCHANGED <<frameVars, map, plock, lockVars, freelist, nextVictim,
                 envVars, ghost, pc, lv>>

\* LockBuffer(buffer, BUFFER_LOCK_SHARE or BUFFER_LOCK_EXCLUSIVE).
LockBuffer(p) ==
  /\ pc[p] = "idle"
  /\ \E b \in Frames :
       /\ Pinned(p, b)
       /\ ~HoldsContentLock(p, b)
       /\ \/ /\ CanLockShared(p, b)
             /\ clockS' = [clockS EXCEPT ![b] = @ \cup {p}]
             /\ UNCHANGED clockX
          \/ /\ CanLockExclusive(p, b)
             /\ clockX' = [clockX EXCEPT ![b] = p]
             /\ UNCHANGED clockS
  /\ UNCHANGED <<frameVars, map, plock, priv, freelist, nextVictim, envVars,
                 ghost, pc, lv>>

\* LockBuffer(buffer, BUFFER_LOCK_UNLOCK).
UnlockBuffer(p) ==
  /\ pc[p] = "idle"
  /\ \E b \in Frames :
       /\ HoldsContentLock(p, b)
       /\ LWLockRelease_Content(p, b)
  /\ UNCHANGED <<frameVars, map, plock, priv, freelist, nextVictim, envVars,
                 ghost, pc, lv>>

\* Variant: A MarkBufferDirty that does not ask for the content lock.
MarkBufferDirty_NoLock(p) ==
  /\ pc[p] = "idle"
  /\ \E b \in Frames :
       /\ Pinned(p, b)
       /\ flags' = [flags EXCEPT ![b] = @ \cup {BM_DIRTY, BM_JUST_DIRTIED}]
  /\ UNCHANGED <<tag, refcount, usage, map, plock, lockVars, priv,
                 freelist, nextVictim, envVars, ghost, pc, lv>>

\* MarkBufferDirty: pinned and exclusively locked; one compare-and-swap.
MarkBufferDirty(p) ==
  /\ pc[p] = "idle"
  /\ \E b \in Frames :
       /\ Pinned(p, b)
       /\ clockX[b] = p
       /\ flags' = [flags EXCEPT ![b] = @ \cup {BM_DIRTY, BM_JUST_DIRTIED}]
  /\ UNCHANGED <<tag, refcount, usage, map, plock, lockVars, priv,
                 freelist, nextVictim, envVars, ghost, pc, lv>>

\* MarkBufferDirtyHint: pinned and share- or exclusively locked; sets the
\* bits under the header spinlock unless both were seen set.
MarkBufferDirtyHint(p) ==
  /\ pc[p] = "idle"
  /\ \E b \in Frames :
       /\ Pinned(p, b)
       /\ HoldsContentLock(p, b)
       /\ ~({BM_DIRTY, BM_JUST_DIRTIED} \subseteq flags[b])
       /\ flags' = [flags EXCEPT ![b] = @ \cup {BM_DIRTY, BM_JUST_DIRTIED}]
  /\ UNCHANGED <<tag, refcount, usage, map, plock, lockVars, priv,
                 freelist, nextVictim, envVars, ghost, pc, lv>>

\* FlushOneBuffer: pinned and content-locked by the caller.
FlushOneBuffer(p) ==
  /\ pc[p] = "idle"
  /\ \E b \in Frames :
       /\ Pinned(p, b)
       /\ HoldsContentLock(p, b)
       /\ Local(p, [NoLocals EXCEPT !.op = "flushone", !.buf = b,
                      !.fctx = "one"])
  /\ Goto(p, "SIO")
  /\ UNCHANGED <<frameVars, map, plock, lockVars, priv, freelist, nextVictim,
                 envVars, ghost>>

\* ---------------------------------------------------------- FlushBuffer
\* Variant: A GetVictimBuffer that takes the share lock with LWLockAcquire
\* and so waits for it.
GetVictimBuffer_Dirty_LWLockAcquire(p) ==
  /\ pc[p] = "GVB_dirty"
  /\ LET b == lv[p].buf IN
     /\ CanLockShared(p, b)
     /\ clockS' = [clockS EXCEPT ![b] = @ \cup {p}]
     /\ Local(p, [lv[p] EXCEPT !.fctx = "gvb", !.forInput = FALSE])
     /\ Goto(p, "SIO")
     /\ UNCHANGED clockX
  /\ UNCHANGED <<frameVars, map, plock, priv, freelist, nextVictim, envVars,
                 ghost>>

\* GetVictimBuffer on a dirty victim: conditional share lock on the content
\* lock; without it the victim is given up.
GetVictimBuffer_Dirty(p) ==
  /\ pc[p] = "GVB_dirty"
  /\ LET b == lv[p].buf IN
     IF CanLockShared(p, b)
     THEN /\ clockS' = [clockS EXCEPT ![b] = @ \cup {p}]
          /\ Local(p, [lv[p] EXCEPT !.fctx = "gvb", !.forInput = FALSE])
          /\ Goto(p, "SIO")
          /\ UNCHANGED clockX
     ELSE /\ Goto(p, "GVB_unpin")
          /\ UNCHANGED <<lockVars, lv>>
  /\ UNCHANGED <<frameVars, map, plock, priv, freelist, nextVictim, envVars,
                 ghost>>

\* Variant: A FlushBuffer that goes on to the write without XLogFlush.
XLogFlushNeeded_Never(fl, recptr) == FALSE

\* FlushBuffer calls XLogFlush(recptr) for a permanent buffer; XLogFlush has
\* work to do when the WAL is not flushed that far.
XLogFlushNeeded(fl, recptr) == BM_PERMANENT \in fl /\ xlog.flush < recptr

\* FlushBuffer: under the header spinlock read the LSN, clear BM_JUST_DIRTIED.
FlushBuffer_ClearJustDirtied(p) ==
  /\ pc[p] = "FB_lsn"
  /\ LET b == lv[p].buf IN
     /\ flags' = [flags EXCEPT ![b] = @ \ {BM_JUST_DIRTIED}]
     /\ Local(p, [lv[p] EXCEPT !.recptr = xlog.lsn[b]])
     /\ Goto(p, IF XLogFlushNeeded(flags[b], xlog.lsn[b])
                THEN "FB_xlog" ELSE "FB_write")
  /\ UNCHANGED <<tag, refcount, usage, map, plock, lockVars, priv,
                 freelist, nextVictim, envVars, ghost>>

\* FlushBuffer: XLogFlush(recptr) makes the WAL durable up to recptr at
\* least, or raises.
FlushBuffer_XLogFlush(p) ==
  /\ pc[p] = "FB_xlog"
  /\ \/ /\ \E upto \in lv[p].recptr..xlog.insert :
             xlog' = [xlog EXCEPT !.flush = IF @ < upto THEN upto ELSE @]
        /\ Goto(p, "FB_write")
     \/ /\ Goto(p, "ERR_abort")
        /\ UNCHANGED xlog
  /\ UNCHANGED <<frameVars, map, plock, lockVars, priv, freelist, nextVictim,
                 nblocks, relpersist, extlock, ckpt, zero_damaged_pages,
                 per_ts_stat, additional_pins, waitVars, ghost, lv>>

\* FlushBuffer: XLogFlush and smgrwrite, then TerminateBufferIO(buf, true, 0)
\* and back in the caller; XLogFlush or smgrwrite may raise instead.
FlushBuffer_Write(p) ==
  /\ pc[p] = "FB_write"
  /\ LET b == lv[p].buf IN
     \/ /\ flags' = [flags EXCEPT ![b] = TerminateBufferIO(@, TRUE, {})]
        /\ ghost' = [ghost EXCEPT !.io[b] = @ \ {p},
                                  !.written = IF ghost.ck THEN @ \cup {b}
                                              ELSE @]
        /\ IF lv[p].fctx \in {"gvb", "sync"}
           THEN LWLockRelease_Content(p, b)
           ELSE UNCHANGED lockVars
        /\ Goto(p, AfterStartBufferIO(p, FALSE))
        /\ Local(p, AfterFlushLocals(p))
     \/ /\ Goto(p, "ERR_abort")
        /\ UNCHANGED <<flags, ghost, lockVars, lv>>
  /\ UNCHANGED <<tag, refcount, usage, map, plock, priv, freelist,
                 nextVictim, envVars>>

\* ------------------------------------------------ ExtendBufferedRelShared
\* extend_by is one block and extend_upto the largest size of the relation.
extend_upto == NBlocks

\* ExtendBufferedRelShared: the victim is acquired first, without the
\* extension lock.
ExtendBufferedRelShared(p) ==
  /\ pc[p] = "idle"
  /\ Goto(p, "GVB")
  /\ Local(p, [NoLocals EXCEPT !.op = "extend", !.try = NBuffers])
  /\ UNCHANGED <<frameVars, map, plock, lockVars, priv, freelist, nextVictim,
                 envVars, ghost>>

\* LockRelationForExtension, first_block = smgrnblocks; give the victim up
\* when the relation already has extend_upto blocks.
Extend_Lock(p) ==
  /\ pc[p] = "EX_victim"
  /\ extlock = NoProc
  /\ extlock' = p
  /\ IF nblocks >= extend_upto
     THEN /\ Goto(p, "EX_free")
          /\ Local(p, [lv[p] EXCEPT !.vic = lv[p].buf, !.buf = NoBuf])
     ELSE /\ Goto(p, "EX_insert")
          /\ Local(p, [lv[p] EXCEPT !.tag = TagOfBlock(nblocks)])
  /\ UNCHANGED <<frameVars, map, plock, lockVars, priv, freelist, nextVictim,
                 nblocks, relpersist, zero_damaged_pages, per_ts_stat,
                 additional_pins, xlog,
                 waitVars, ckpt, ghost>>

\* BufTableInsert under the exclusive partition lock; on a collision pin the
\* existing buffer and release the partition lock.
Extend_Insert(p) ==
  /\ pc[p] = "EX_insert"
  /\ plock[Part(lv[p].tag)] = NoProc
  /\ BufTableInsert(lv[p].tag, lv[p].buf)
  /\ LET e == BufTableLookup(lv[p].tag) IN
     IF e # NoBuf
     THEN /\ PinBuffer(p, e)
          /\ Local(p, [lv[p] EXCEPT !.vic = lv[p].buf, !.buf = e,
                         !.existing = TRUE, !.found = PinBufferResult(p, e)])
          /\ Goto(p, "EX_free")
          /\ UNCHANGED plock
     ELSE /\ plock' = [plock EXCEPT ![Part(lv[p].tag)] = p]
          /\ Goto(p, "EX_settag")
          /\ UNCHANGED <<refcount, usage, priv, lv>>
  /\ UNCHANGED <<tag, flags, lockVars, freelist, nextVictim, envVars, ghost>>

\* StrategyFreeBuffer(victim): the victim is not needed.
Extend_FreeVictim(p) ==
  /\ pc[p] = "EX_free"
  /\ StrategyFreeBuffer(lv[p].vic)
  /\ Goto(p, "EX_unpin")
  /\ UNCHANGED <<frameVars, map, plock, lockVars, priv, nextVictim, envVars,
                 ghost, lv>>

\* UnpinBuffer(victim).  With extend_by reduced to zero the extension lock
\* is released and the call returns; after a collision the existing buffer
\* is checked: valid and not PageIsNew is an error.
Extend_UnpinVictim(p) ==
  /\ pc[p] = "EX_unpin"
  /\ UnpinBuffer(p, lv[p].vic)
  /\ IF ~lv[p].existing
     THEN /\ extlock' = NoProc
          /\ Goto(p, "idle")
          /\ Local(p, NoLocals)
     ELSE /\ UNCHANGED extlock
          /\ \/ /\ Goto(p, "EX_ghost")
                /\ Local(p, [lv[p] EXCEPT !.vic = NoBuf, !.found = FALSE])
             \/ /\ lv[p].found
                /\ Goto(p, "ERR_release")
                /\ Local(p, [lv[p] EXCEPT !.vic = NoBuf])
  /\ UNCHANGED <<tag, flags, usage, map, plock, lockVars, freelist,
                 nextVictim, nblocks, relpersist,
                 zero_damaged_pages, per_ts_stat, additional_pins, xlog,
                 waitVars, ckpt, ghost>>

\* The existing buffer: clear BM_VALID under the header spinlock, then
\* StartBufferIO.
Extend_ClearValid(p) ==
  /\ pc[p] = "EX_ghost"
  /\ flags' = [flags EXCEPT ![lv[p].buf] = @ \ {BM_VALID}]
  /\ Local(p, [lv[p] EXCEPT !.forInput = TRUE])
  /\ Goto(p, "SIO")
  /\ UNCHANGED <<tag, refcount, usage, map, plock, lockVars, priv, freelist,
                 nextVictim, envVars, ghost>>

\* No collision: set the victim's tag and flags under the header spinlock,
\* release the partition lock, then StartBufferIO.
Extend_SetTag(p) ==
  /\ pc[p] = "EX_settag"
  /\ LET b == lv[p].buf IN
     /\ tag' = [tag EXCEPT ![b] = lv[p].tag]
     /\ flags' = [flags EXCEPT ![b] =
                    @ \cup {BM_TAG_VALID}
                      \cup (IF relpersist = RELPERSISTENCE_PERMANENT
                            THEN {BM_PERMANENT} ELSE {})]
     /\ usage' = [usage EXCEPT ![b] = IF @ % 2 = 0 THEN @ + 1 ELSE @]
  /\ plock' = [plock EXCEPT ![Part(lv[p].tag)] = NoProc]
  /\ Local(p, [lv[p] EXCEPT !.forInput = TRUE])
  /\ Goto(p, "SIO")
  /\ UNCHANGED <<refcount, map, lockVars, priv, freelist, nextVictim,
                 envVars, ghost>>

\* smgrzeroextend, then UnlockRelationForExtension; smgrzeroextend may raise.
Extend_ZeroExtend(p) ==
  /\ pc[p] = "EX_next"
  /\ \/ /\ nblocks' = nblocks + 1
        /\ extlock' = NoProc
        /\ Goto(p, "EX_term")
     \/ /\ Goto(p, "ERR_abort")
        /\ UNCHANGED <<nblocks, extlock>>
  /\ UNCHANGED <<frameVars, map, plock, lockVars, priv, freelist, nextVictim,
                 relpersist, zero_damaged_pages, per_ts_stat, additional_pins,
                 xlog,
                 waitVars, ckpt, ghost, lv>>

\* TerminateBufferIO(buf_hdr, false, BM_VALID); the pinned buffer is returned.
Extend_Terminate(p) ==
  /\ pc[p] = "EX_term"
  /\ LET b == lv[p].buf IN
     /\ flags' = [flags EXCEPT ![b] = TerminateBufferIO(@, FALSE, {BM_VALID})]
     /\ ghost' = [ghost EXCEPT !.io[b] = @ \ {p}]
  /\ Goto(p, "idle")
  /\ Local(p, NoLocals)
  /\ UNCHANGED <<tag, refcount, usage, map, plock, lockVars, priv, freelist,
                 nextVictim, envVars>>

\* ------------------------------ DropRelationBuffers: choice of strategy
\* BlockNumber is an unsigned integer of BlockNumberBits bits (32 in the
\* program) and InvalidBlockNumber its largest value.
InvalidBlockNumber == 2^BlockNumberBits - 1
BlockNumberIsValid(n) == n # InvalidBlockNumber

\* (uint64) (NBuffers / 32), an integer division.
BUF_DROP_FULL_SCAN_THRESHOLD(nbuffers) == nbuffers \div 32

\* The loop of DropRelationBuffers over the forks from fork i on, acc being
\* nBlocksToInvalidate so far: a fork whose size smgrnblocks_cached does
\* not know makes the result InvalidBlockNumber; the difference of two
\* BlockNumbers is taken in BlockNumber and added in uint64.
RECURSIVE nBlocksToInvalidate(_, _, _, _)
nBlocksToInvalidate(nForkBlock, firstDelBlock, i, acc) ==
  IF i > Len(nForkBlock) THEN acc
  ELSE IF nForkBlock[i] = InvalidBlockNumber THEN InvalidBlockNumber
  ELSE nBlocksToInvalidate(nForkBlock, firstDelBlock, i + 1,
         acc + ((nForkBlock[i] - firstDelBlock[i]) % (2^BlockNumberBits)))

\* Variant: A DropRelationBuffers that looks the blocks up whenever their
\* number does not exceed the threshold.
DropRelationBuffers_UseLookup_AtMost(nbuffers, nForkBlock, firstDelBlock) ==
  LET n == nBlocksToInvalidate(nForkBlock, firstDelBlock, 1, 0)
  IN  BlockNumberIsValid(n) /\ n <= BUF_DROP_FULL_SCAN_THRESHOLD(nbuffers)

\* The test DropRelationBuffers applies the optimization on.
DropRelationBuffers_UseLookup(nbuffers, nForkBlock, firstDelBlock) ==
  LET n == nBlocksToInvalidate(nForkBlock, firstDelBlock, 1, 0)
  IN  BlockNumberIsValid(n) /\ n < BUF_DROP_FULL_SCAN_THRESHOLD(nbuffers)

\* Where InvalidateBuffer returns to: the loop of FindAndDropRelationBuffers
\* or the scan of DropRelationBuffers.
AfterInvalidateBuffer(p) == IF lv[p].lookup THEN "FD_loop" ELSE "DR_scan"

\* ---------------------------------- DropRelationBuffers, InvalidateBuffer
\* DropRelationBuffers(firstDelBlock): scan the whole pool.
DropRelationBuffers(p) ==
  /\ pc[p] = "idle"
  /\ \E d \in 0..(NBlocks - 1) :
       Local(p, [NoLocals EXCEPT !.op = "drop", !.first = d, !.i = 1])
  /\ Goto(p, "DR_scan")
  /\ UNCHANGED <<frameVars, map, plock, lockVars, priv, freelist, nextVictim,
                 envVars, ghost>>

\* One buffer of the scan: under the header spinlock compare the tag; a
\* matching buffer goes to InvalidateBuffer, which saves the tag.
DropRelationBuffers_Scan(p) ==
  /\ pc[p] = "DR_scan"
  /\ IF lv[p].i > NBuffers
     THEN /\ Goto(p, "idle")
          /\ Local(p, NoLocals)
     ELSE LET b == lv[p].i IN
          IF tag[b] # NoTag /\ blockNum(tag[b]) >= lv[p].first
          THEN /\ Goto(p, "IB_retry")
               /\ Local(p, [lv[p] EXCEPT !.buf = b, !.otag = tag[b]])
          ELSE /\ Local(p, [lv[p] EXCEPT !.i = @ + 1])
               /\ UNCHANGED pc
  /\ UNCHANGED <<frameVars, map, plock, lockVars, priv, freelist, nextVictim,
                 envVars, ghost>>

\* Variant: An InvalidateBuffer that does not compare the tag again.
InvalidateBuffer_NoTagCheck(p) ==
  /\ pc[p] = "IB_retry"
  /\ LET b == lv[p].buf IN
     /\ plock[Part(lv[p].otag)] = NoProc
     /\ IF refcount[b] # 0
        THEN /\ Goto(p, IF priv[p][b] > 0 THEN "ERR_release" ELSE "WaitIO")
             /\ UNCHANGED <<tag, flags, usage, plock, lv>>
        ELSE /\ plock' = [plock EXCEPT ![Part(lv[p].otag)] = p]
             /\ tag' = [tag EXCEPT ![b] = NoTag]
             /\ flags' = [flags EXCEPT ![b] = @ \ BUF_FLAG_MASK]
             /\ usage' = [usage EXCEPT ![b] = 0]
             /\ Local(p, [lv[p] EXCEPT !.btagvalid = BM_TAG_VALID \in flags[b]])
             /\ Goto(p, "IB_delete")
  /\ UNCHANGED <<refcount, map, lockVars, priv, freelist, nextVictim,
                 envVars, ghost>>

\* InvalidateBuffer at retry: exclusive partition lock and header spinlock.
\* Return if the tag changed; with a pin on the buffer release both and
\* WaitIO (an error for a pin of its own); else clear the tag, the flags and
\* the usage count.
InvalidateBuffer(p) ==
  /\ pc[p] = "IB_retry"
  /\ LET b == lv[p].buf IN
     /\ plock[Part(lv[p].otag)] = NoProc
     /\ IF tag[b] # lv[p].otag
        THEN /\ Goto(p, AfterInvalidateBuffer(p))
             /\ Local(p, [lv[p] EXCEPT !.i = @ + 1, !.buf = NoBuf,
                            !.otag = NoTag])
             /\ UNCHANGED <<tag, flags, usage, plock>>
        ELSE IF refcount[b] # 0
        THEN /\ Goto(p, IF priv[p][b] > 0 THEN "ERR_release" ELSE "WaitIO")
             /\ UNCHANGED <<tag, flags, usage, plock, lv>>
        ELSE /\ plock' = [plock EXCEPT ![Part(lv[p].otag)] = p]
             /\ tag' = [tag EXCEPT ![b] = NoTag]
             /\ flags' = [flags EXCEPT ![b] = @ \ BUF_FLAG_MASK]
             /\ usage' = [usage EXCEPT ![b] = 0]
             /\ Local(p, [lv[p] EXCEPT !.btagvalid = BM_TAG_VALID \in flags[b]])
             /\ Goto(p, "IB_delete")
  /\ UNCHANGED <<refcount, map, lockVars, priv, freelist, nextVictim,
                 envVars, ghost>>

\* InvalidateBuffer: BufTableDelete if the buffer was in the table, release
\* the partition lock.
InvalidateBuffer_Delete(p) ==
  /\ pc[p] = "IB_delete"
  /\ IF lv[p].btagvalid THEN BufTableDelete(lv[p].otag) ELSE UNCHANGED map
  /\ plock' = [plock EXCEPT ![Part(lv[p].otag)] = NoProc]
  /\ Goto(p, "IB_free")
  /\ UNCHANGED <<frameVars, lockVars, priv, freelist, nextVictim, envVars,
                 ghost, lv>>

\* InvalidateBuffer: StrategyFreeBuffer, and back in the caller's loop.
InvalidateBuffer_Free(p) ==
  /\ pc[p] = "IB_free"
  /\ StrategyFreeBuffer(lv[p].buf)
  /\ Goto(p, AfterInvalidateBuffer(p))
  /\ Local(p, [lv[p] EXCEPT !.i = @ + 1, !.buf = NoBuf, !.otag = NoTag,
                 !.btagvalid = FALSE])
  /\ UNCHANGED <<frameVars, map, plock, lockVars, priv, nextVictim, envVars,
                 ghost>>

\* DropRelationBuffers(firstDelBlock) for a fork whose size is cached (as
\* it is during recovery): smgrnblocks_cached hands back the size of the
\* fork.  The pool has InertBuffers frames besides the NBuffers of the
\* model; they hold pages of other relations and stay pinned by backends
\* that are not modelled, so nothing here ever finds or takes them.
DropRelationBuffers_Cached(p) ==
  /\ pc[p] = "idle"
  /\ \E d \in 0..(NBlocks - 1) :
       Local(p, [NoLocals EXCEPT !.op = "drop", !.first = d,
                   !.nForkBlock = <<nblocks>>, !.firstDelBlock = <<d>>,
                   !.nbuffers = NBuffers + InertBuffers])
  /\ Goto(p, "DR_strategy")
  /\ UNCHANGED <<frameVars, map, plock, lockVars, priv, freelist, nextVictim,
                 envVars, ghost>>

\* Variant: A DropRelationBuffers that looks up when the number of blocks
\* equals the threshold, too.
DropRelationBuffers_Strategy_AtMost(p) ==
  /\ pc[p] = "DR_strategy"
  /\ IF DropRelationBuffers_UseLookup_AtMost(lv[p].nbuffers, lv[p].nForkBlock,
                                             lv[p].firstDelBlock)
     THEN /\ Goto(p, "FD_loop")
          /\ Local(p, [lv[p] EXCEPT !.lookup = TRUE,
                         !.i = lv[p].firstDelBlock[1]])
     ELSE /\ Goto(p, "DR_scan")
          /\ Local(p, [lv[p] EXCEPT !.i = 1])
  /\ UNCHANGED <<frameVars, map, plock, lockVars, priv, freelist, nextVictim,
                 envVars, ghost>>

\* DropRelationBuffers: FindAndDropRelationBuffers for the forks if every
\* size is known and the number of blocks is below the threshold, else the
\* scan of the pool.
DropRelationBuffers_Strategy(p) ==
  /\ pc[p] = "DR_strategy"
  /\ IF DropRelationBuffers_UseLookup(lv[p].nbuffers, lv[p].nForkBlock,
                                      lv[p].firstDelBlock)
     THEN /\ Goto(p, "FD_loop")
          /\ Local(p, [lv[p] EXCEPT !.lookup = TRUE,
                         !.i = lv[p].firstDelBlock[1]])
     ELSE /\ Goto(p, "DR_scan")
          /\ Local(p, [lv[p] EXCEPT !.i = 1])
  /\ UNCHANGED <<frameVars, map, plock, lockVars, priv, freelist, nextVictim,
                 envVars, ghost>>

\* FindAndDropRelationBuffers, one block of the loop (i is curBlock): look
\* the tag up under the shared partition lock; without an entry go on to
\* the next block.  After the last block DropRelationBuffers returns.
FindAndDropRelationBuffers(p) ==
  /\ pc[p] = "FD_loop"
  /\ IF lv[p].i >= lv[p].nForkBlock[1]
     THEN /\ Goto(p, "idle")
          /\ Local(p, NoLocals)
     ELSE LET bufTag == TagOfBlock(lv[p].i) IN
          /\ plock[Part(bufTag)] = NoProc
          /\ IF BufTableLookup(bufTag) = NoBuf
             THEN /\ Local(p, [lv[p] EXCEPT !.i = @ + 1])
                  /\ UNCHANGED pc
             ELSE /\ Local(p, [lv[p] EXCEPT !.buf = BufTableLookup(bufTag)])
                  /\ Goto(p, "FD_check")
  /\ UNCHANGED <<frameVars, map, plock, lockVars, priv, freelist, nextVictim,
                 envVars, ghost>>

\* FindAndDropRelationBuffers: under the header spinlock compare the tag
\* again (relation, fork, blockNum >= firstDelBlock); a matching buffer goes
\* to InvalidateBuffer, which saves the tag.
FindAndDropRelationBuffers_Check(p) ==
  /\ pc[p] = "FD_check"
  /\ LET b == lv[p].buf IN
     IF tag[b] # NoTag /\ blockNum(tag[b]) >= lv[p].first
     THEN /\ Goto(p, "IB_retry")
          /\ Local(p, [lv[p] EXCEPT !.otag = tag[b]])
     ELSE /\ Goto(p, "FD_loop")
          /\ Local(p, [lv[p] EXCEPT !.i = @ + 1, !.buf = NoBuf])
  /\ UNCHANGED <<frameVars, map, plock, lockVars, priv, freelist, nextVictim,
                 envVars, ghost>>


\* ------------------------------------------------ BufferSync, SyncOneBuffer
CHECKPOINT_WRITE_ALL == {BM_DIRTY}
CHECKPOINT_WRITE_PERMANENT == {BM_DIRTY, BM_PERMANENT}

\* Sorted insertion of an item by block number: the order of
\* ckpt_buforder_comparator within one relation fork.
RECURSIVE SortInsert(_, _)
SortInsert(s, x) ==
  IF s = <<>> THEN <<x>>
  ELSE IF x.blockNum < Head(s).blockNum THEN <<x>> \o s
  ELSE <<Head(s)>> \o SortInsert(Tail(s), x)

RECURSIVE SortItems(_)
SortItems(s) ==
  IF s = <<>> THEN <<>> ELSE SortInsert(SortItems(Tail(s)), Head(s))

\* BufferSync(flags): the mask is BM_DIRTY, with BM_PERMANENT unless the
\* flags ask for all buffers.
BufferSync(p) ==
  /\ pc[p] = "idle"
  /\ \A f \in Frames : ~Pinned(p, f)
  /\ \E m \in {CHECKPOINT_WRITE_ALL, CHECKPOINT_WRITE_PERMANENT} :
       /\ Local(p, [NoLocals EXCEPT !.op = "sync", !.i = 1, !.mask = m])
       /\ ghost' = [ghost EXCEPT !.ck = TRUE,
                      !.ckdirty = {f \in Frames : BM_DIRTY \in flags[f]},
                      !.ckmask = {f \in Frames : m \subseteq flags[f]},
                      !.written = {}]
  /\ ckpt' = <<>>
  /\ Goto(p, "BS_mark")
  /\ UNCHANGED <<frameVars, map, plock, lockVars, priv, freelist, nextVictim,
                 nblocks, relpersist, zero_damaged_pages, per_ts_stat,
                 additional_pins, xlog,
                 waitVars, extlock>>

\* BufferSync returns.
BufferSync_Return(p) ==
  /\ Goto(p, "idle")
  /\ Local(p, NoLocals)
  /\ ckpt' = <<>>
  /\ ghost' = NoCheckpoint(ghost)

\* BufferSync, mark loop: one buffer under its header spinlock; after the
\* last one return if nothing was marked, else sort CkptBufferIds.
BufferSync_Mark(p) ==
  /\ pc[p] = "BS_mark"
  /\ IF lv[p].i > NBuffers
     THEN /\ IF ckpt = <<>>
             THEN BufferSync_Return(p)
             ELSE /\ ckpt' = SortItems(ckpt)
                  /\ Local(p, [lv[p] EXCEPT !.i = 1])
                  /\ Goto(p, "BS_flush")
                  /\ UNCHANGED ghost
          /\ UNCHANGED flags
     ELSE LET b == lv[p].i IN
          /\ IF lv[p].mask \subseteq flags[b]
             THEN /\ flags' = [flags EXCEPT ![b] = @ \cup {BM_CHECKPOINT_NEEDED}]
                  /\ ckpt' = Append(ckpt, [buf_id |-> b, tsId |-> spcOid(tag[b]),
                                           blockNum |-> blockNum(tag[b])])
             ELSE UNCHANGED <<flags, ckpt>>
          /\ Local(p, [lv[p] EXCEPT !.i = @ + 1])
          /\ UNCHANGED <<pc, ghost>>
  /\ UNCHANGED <<tag, refcount, usage, map, plock, lockVars, priv, freelist,
                 nextVictim, nblocks, relpersist,
                 zero_damaged_pages, per_ts_stat, additional_pins, xlog,
                 waitVars, extlock>>

\* BufferSync, flush loop: read BM_CHECKPOINT_NEEDED of the next buffer
\* without a lock; return after the last one.
BufferSync_Flush(p) ==
  /\ pc[p] = "BS_flush"
  /\ IF lv[p].i > Len(ckpt)
     THEN BufferSync_Return(p)
     ELSE LET b == ckpt[lv[p].i].buf_id IN
          /\ IF BM_CHECKPOINT_NEEDED \in flags[b]
             THEN /\ Goto(p, "SOB")
                  /\ Local(p, [lv[p] EXCEPT !.buf = b])
             ELSE /\ Local(p, [lv[p] EXCEPT !.i = @ + 1])
                  /\ UNCHANGED pc
          /\ UNCHANGED <<ckpt, ghost>>
  /\ UNCHANGED <<frameVars, map, plock, lockVars, priv, freelist, nextVictim,
                 nblocks, relpersist, zero_damaged_pages, per_ts_stat,
                 additional_pins, xlog,
                 waitVars, extlock>>

\* Variant: A SyncOneBuffer that skips buffers somebody has pinned.
SyncOneBuffer_SkipPinned(p) ==
  /\ pc[p] = "SOB"
  /\ LET b == lv[p].buf IN
     IF BM_VALID \notin flags[b] \/ BM_DIRTY \notin flags[b]
        \/ refcount[b] # 0
     THEN /\ Goto(p, "BS_flush")
          /\ Local(p, [lv[p] EXCEPT !.i = @ + 1, !.buf = NoBuf])
          /\ UNCHANGED <<refcount, priv>>
     ELSE /\ PinBuffer_Locked(p, b)
          /\ Goto(p, "SOB_lock")
          /\ UNCHANGED lv
  /\ UNCHANGED <<tag, flags, usage, map, plock, lockVars, freelist,
                 nextVictim, envVars, ghost>>

\* SyncOneBuffer(buf_id, false): under the header spinlock, nothing to do
\* for a buffer that is not valid or not dirty, else PinBuffer_Locked.
SyncOneBuffer(p) ==
  /\ pc[p] = "SOB"
  /\ LET b == lv[p].buf IN
     IF BM_VALID \notin flags[b] \/ BM_DIRTY \notin flags[b]
     THEN /\ Goto(p, "BS_flush")
          /\ Local(p, [lv[p] EXCEPT !.i = @ + 1, !.buf = NoBuf])
          /\ UNCHANGED <<refcount, priv>>
     ELSE /\ PinBuffer_Locked(p, b)
          /\ Goto(p, "SOB_lock")
          /\ UNCHANGED lv
  /\ UNCHANGED <<tag, flags, usage, map, plock, lockVars, freelist,
                 nextVictim, envVars, ghost>>

\* SyncOneBuffer: share-lock the content lock, then FlushBuffer.
SyncOneBuffer_Lock(p) ==
  /\ pc[p] = "SOB_lock"
  /\ CanLockShared(p, lv[p].buf)
  /\ clockS' = [clockS EXCEPT ![lv[p].buf] = @ \cup {p}]
  /\ Local(p, [lv[p] EXCEPT !.fctx = "sync", !.forInput = FALSE])
  /\ Goto(p, "SIO")
  /\ UNCHANGED <<frameVars, map, plock, clockX, priv, freelist, nextVictim,
                 envVars, ghost>>

\* SyncOneBuffer: UnpinBuffer, and back in the flush loop.
SyncOneBuffer_Unpin(p) ==
  /\ pc[p] = "SOB_unpin"
  /\ UnpinBuffer(p, lv[p].buf)
  /\ Goto(p, "BS_flush")
  /\ Local(p, [lv[p] EXCEPT !.i = @ + 1, !.buf = NoBuf])
  /\ UNCHANGED <<tag, flags, usage, map, plock, lockVars, freelist,
                 nextVictim, envVars, ghost>>


\* Reading and evicting, with the calls that release a pin.
ReadSteps(p) ==
  \/ BufferAlloc_Lookup(p)
  \/ StrategyGetBuffer(p)
  \/ GetVictimBuffer_Unpin(p)
  \/ InvalidateVictimBuffer(p)
  \/ InvalidateVictimBuffer_Delete(p)
  \/ BufferAlloc_Insert(p)
  \/ BufferAlloc_FreeVictim(p)
  \/ BufferAlloc_PinExisting(p)
  \/ BufferAlloc_SetTag(p)
  \/ StartBufferIO(p)
  \/ WaitIO(p)
  \/ ReadBuffer_Read(p)
  \/ ReadBuffer_Return(p)
  \/ AbortBufferIO(p)
  \/ ErrorRelease(p)
  \/ ReleaseBuffer(p)

ExtendSteps(p) ==
  \/ ExtendBufferedRelShared(p)
  \/ Extend_Lock(p)
  \/ Extend_Insert(p)
  \/ Extend_FreeVictim(p)
  \/ Extend_UnpinVictim(p)
  \/ Extend_ClearValid(p)
  \/ Extend_SetTag(p)
  \/ Extend_ZeroExtend(p)
  \/ Extend_Terminate(p)

DropSteps(p) ==
  \/ DropRelationBuffers(p)
  \/ DropRelationBuffers_Scan(p)
  \/ InvalidateBuffer(p)
  \/ InvalidateBuffer_Delete(p)
  \/ InvalidateBuffer_Free(p)

DirtySteps(p) ==
  \/ LockBuffer(p)
  \/ UnlockBuffer(p)
  \/ MarkBufferDirty(p)
  \/ MarkBufferDirtyHint(p)
  \/ FlushOneBuffer(p)
  \/ GetVictimBuffer_Dirty(p)
  \/ FlushBuffer_ClearJustDirtied(p)
  \/ FlushBuffer_Write(p)

\* Backends that read, extend and drop: the mapping table and the pins.
\* Every backend reads; one of them extends the relation and another one
\* drops its buffers.
Extenders == {1}
Droppers == {NProcs}

Next ==
  \/ \E p \in Procs : ReadSteps(p) \/ IncrBufferRefCount(p)
  \/ \E p \in Extenders : ExtendSteps(p)
  \/ \E p \in Droppers : DropSteps(p)

Spec == Init /\ [][Next]_vars

SyncSteps(p) ==
  \/ BufferSync(p)
  \/ BufferSync_Mark(p)
  \/ BufferSync_Flush(p)
  \/ SyncOneBuffer(p)
  \/ SyncOneBuffer_Lock(p)
  \/ SyncOneBuffer_Unpin(p)

FlushSteps(p) ==
  \/ StartBufferIO(p)
  \/ WaitIO(p)
  \/ FlushBuffer_ClearJustDirtied(p)
  \/ FlushBuffer_Write(p)
  \/ AbortBufferIO(p)
  \/ ErrorRelease(p)

\* The backends of this workload read a buffer when they hold none.
ReadBuffer_Unpinned(p) ==
  /\ \A f \in Frames : ~Pinned(p, f)
  /\ BufferAlloc_Lookup(p)

PinnedSteps(p) ==
  \/ ReadBuffer_Unpinned(p)
  \/ ReadBuffer_Return(p)
  \/ ReleaseBuffer(p)
  \/ LockBuffer(p)
  \/ UnlockBuffer(p)
  \/ MarkBufferDirty(p)
  \/ MarkBufferDirtyHint(p)
  \/ FlushOneBuffer(p)

\* Backends that dirty and flush the buffers of a relation, and the
\* checkpointer.  The relation is permanent or unlogged and all its blocks
\* have been read in: frame f holds block f - 1 and nobody has it pinned.
Backends == Procs \ {NProcs}
Checkpointer == {NProcs}

InitSync ==
  /\ relpersist \in {RELPERSISTENCE_PERMANENT, RELPERSISTENCE_UNLOGGED}
  /\ nblocks = NBlocks
  /\ tag = [f \in Frames |-> IF f \in Tags THEN f ELSE NoTag]
  /\ flags = [f \in Frames |->
                IF f \in Tags
                THEN {BM_TAG_VALID, BM_VALID}
                       \cup (IF relpersist = RELPERSISTENCE_PERMANENT
                             THEN {BM_PERMANENT} ELSE {})
                ELSE {}]
  /\ refcount = [f \in Frames |-> 0]
  /\ usage = [f \in Frames |-> IF f \in Tags THEN 1 ELSE 0]
  /\ map = [t \in Tags |-> IF t \in Frames THEN t ELSE NoBuf]
  /\ plock = [k \in 0..(NUM_BUFFER_PARTITIONS - 1) |-> NoProc]
  /\ clockX = [f \in Frames |-> NoProc]
  /\ clockS = [f \in Frames |-> {}]
  /\ priv = [p \in Procs |-> [f \in Frames |-> 0]]
  /\ freelist = <<>>
  /\ nextVictim = 0
  /\ extlock = NoProc
  /\ ckpt = <<>>
  /\ zero_damaged_pages = FALSE
  /\ per_ts_stat = <<>>
  /\ additional_pins = NoCall
  /\ xlog = NoWal
  /\ hdrlock = [f \in Frames |-> NoProc]
  /\ wait_backend_pgprocno = [f \in Frames |-> NoProc]
  /\ latch = {}
  /\ iocv = [f \in Frames |-> {}]
  /\ ghost = NoCheckpoint([io |-> [f \in Frames |-> {}]])
  /\ pc = [p \in Procs |-> "idle"]
  /\ lv = [p \in Procs |-> NoLocals]

NextSync ==
  \/ \E p \in Backends : PinnedSteps(p) \/ FlushSteps(p)
  \/ \E p \in Checkpointer : SyncSteps(p) \/ FlushSteps(p)

SpecSync == InitSync /\ [][NextSync]_vars

\* ------------------------------------------------- pins, taken one by one
\* PinBuffer, the usage count a first pin leaves: the default strategy
\* (NULL) raises it unless it is at its maximum, a ring strategy raises it
\* only from zero.
NULL_STRATEGY == "NULL"
BAS_BULKREAD == "BAS_BULKREAD"

\* Variant: A PinBuffer that treats a ring strategy like the default one.
PinBufferUsage_IgnoreStrategy(u, strategy) ==
  IF u < BM_MAX_USAGE_COUNT THEN u + 1 ELSE u

PinBufferUsage(u, strategy) ==
  IF strategy = NULL_STRATEGY
  THEN IF u < BM_MAX_USAGE_COUNT THEN u + 1 ELSE u
  ELSE IF u = 0 THEN u + 1 ELSE u

\* Variant: A PinBuffer that raises the shared count on every pin.
PinBuffer_Strategy_Always(p, b, strategy) ==
  /\ refcount' = [refcount EXCEPT ![b] = @ + 1]
  /\ usage' = usage
  /\ priv' = [priv EXCEPT ![p][b] = @ + 1]

\* PinBuffer(buf, strategy): a first pin changes the state word in one
\* compare-and-swap, every pin raises the local count.
PinBuffer_Strategy(p, b, strategy) ==
  /\ refcount' = IF priv[p][b] = 0
                 THEN [refcount EXCEPT ![b] = @ + 1] ELSE refcount
  /\ usage' = IF priv[p][b] = 0
              THEN [usage EXCEPT ![b] = PinBufferUsage(@, strategy)]
              ELSE usage
  /\ priv' = [priv EXCEPT ![p][b] = @ + 1]

\* What the pin operations leave alone.
PinOpUnchanged ==
  UNCHANGED <<tag, flags, map, plock, lockVars, freelist, nextVictim,
              envVars, pc, lv>>

\* History of the pin operations: pins less unpins of every process for
\* every frame, and the operation of the last step.
PinOpDone(p, b, d, op, strategy) ==
  ghost' = [ghost EXCEPT !.net[p][b] = @ + d,
                         !.pinop = [op |-> op, proc |-> p, buf |-> b,
                                    strategy |-> strategy]]

PinOp_PinBuffer(p) ==
  \E b \in Frames, strategy \in {NULL_STRATEGY, BAS_BULKREAD} :
    /\ priv[p][b] < MaxPins
    /\ PinBuffer_Strategy(p, b, strategy)
    /\ PinOpDone(p, b, 1, "PinBuffer", strategy)
    /\ PinOpUnchanged

\* PinBuffer_Locked is for a buffer the caller has no pin on.
PinOp_PinBuffer_Locked(p) ==
  \E b \in Frames :
    /\ priv[p][b] = 0
    /\ PinBuffer_Locked(p, b)
    /\ PinOpDone(p, b, 1, "PinBuffer_Locked", NULL_STRATEGY)
    /\ UNCHANGED usage
    /\ PinOpUnchanged

PinOp_IncrBufferRefCount(p) ==
  \E b \in Frames :
    /\ Pinned(p, b)
    /\ priv[p][b] < MaxPins
    /\ priv' = [priv EXCEPT ![p][b] = @ + 1]
    /\ PinOpDone(p, b, 1, "IncrBufferRefCount", NULL_STRATEGY)
    /\ UNCHANGED <<refcount, usage>>
    /\ PinOpUnchanged

PinOp_UnpinBuffer(p) ==
  \E b \in Frames :
    /\ UnpinBuffer(p, b)
    /\ PinOpDone(p, b, -1, "UnpinBuffer", NULL_STRATEGY)
    /\ UNCHANGED usage
    /\ PinOpUnchanged

\* A pool in which every block of the relation is in a buffer, with any
\* usage count; the first process may hold one pin on any buffer from
\* earlier on, the others come in with none.
InitPin ==
  /\ relpersist = RELPERSISTENCE_PERMANENT
  /\ nblocks = NBlocks
  /\ tag = [f \in Frames |-> IF f \in Tags THEN f ELSE NoTag]
  /\ flags = [f \in Frames |->
                IF f \in Tags THEN {BM_TAG_VALID, BM_VALID, BM_PERMANENT}
                ELSE {}]
  /\ priv \in [Procs -> [Frames -> 0..1]]
  /\ \A p \in Procs, f \in Frames : priv[p][f] > 0 => f \in Tags /\ p = 1
  /\ refcount = [f \in Frames |-> Cardinality({p \in Procs : priv[p][f] > 0})]
  /\ usage \in [Frames -> 0..BM_MAX_USAGE_COUNT]
  /\ \A f \in Frames : f \notin Tags => usage[f] = 0
  /\ map = [t \in Tags |-> IF t \in Frames THEN t ELSE NoBuf]
  /\ plock = [k \in 0..(NUM_BUFFER_PARTITIONS - 1) |-> NoProc]
  /\ clockX = [f \in Frames |-> NoProc]
  /\ clockS = [f \in Frames |-> {}]
  /\ freelist = <<>>
  /\ nextVictim = 0
  /\ extlock = NoProc
  /\ ckpt = <<>>
  /\ zero_damaged_pages = FALSE
  /\ per_ts_stat = <<>>
  /\ additional_pins = NoCall
  /\ xlog = NoWal
  /\ hdrlock = [f \in Frames |-> NoProc]
  /\ wait_backend_pgprocno = [f \in Frames |-> NoProc]
  /\ latch = {}
  /\ iocv = [f \in Frames |-> {}]
  /\ ghost = [io |-> [f \in Frames |-> {}], ck |-> FALSE, ckdirty |-> {},
              ckmask |-> {}, written |-> {},
              net |-> [p \in Procs |-> [f \in Frames |-> 0]],
              start |-> [refcount |-> refcount, priv |-> priv],
              pinop |-> [op |-> "none", proc |-> NoProc, buf |-> NoBuf,
                         strategy |-> NULL_STRATEGY]]
  /\ pc = [p \in Procs |-> "idle"]
  /\ lv = [p \in Procs |-> NoLocals]

NextPin ==
  \E p \in Procs :
    \/ PinOp_PinBuffer(p)
    \/ PinOp_PinBuffer_Locked(p)
    \/ PinOp_IncrBufferRefCount(p)
    \/ PinOp_UnpinBuffer(p)

SpecPin == InitPin /\ [][NextPin]_vars

\* ------------------------------------------- eviction of dirty buffers
\* Reading with eviction, where a dirty victim is written out first.
EvictSteps(p) ==
  \/ ReadBuffer_Unpinned(p)
  \/ StrategyGetBuffer(p)
  \/ GetVictimBuffer_Dirty(p)
  \/ GetVictimBuffer_Unpin(p)
  \/ InvalidateVictimBuffer(p)
  \/ InvalidateVictimBuffer_Delete(p)
  \/ BufferAlloc_Insert(p)
  \/ BufferAlloc_FreeVictim(p)
  \/ BufferAlloc_PinExisting(p)
  \/ BufferAlloc_SetTag(p)
  \/ StartBufferIO(p)
  \/ WaitIO(p)
  \/ ReadBuffer_Read(p)
  \/ ReadBuffer_Return(p)
  \/ FlushBuffer_ClearJustDirtied(p)
  \/ FlushBuffer_Write(p)
  \/ AbortBufferIO(p)
  \/ ErrorRelease(p)
  \/ ReleaseBuffer(p)

\* What a backend does to the page of a buffer it has pinned.
ModifySteps(p) ==
  \/ LockBuffer(p)
  \/ UnlockBuffer(p)
  \/ MarkBufferDirty(p)
  \/ MarkBufferDirtyHint(p)

\* Every backend reads and evicts; one of them extends the relation and
\* another one modifies pages.
Modifiers == {NProcs}

\* The pool after InitBufferPool, with zero_damaged_pages on.
InitEvict ==
  /\ tag = [f \in Frames |-> NoTag]
  /\ flags = [f \in Frames |-> {}]
  /\ refcount = [f \in Frames |-> 0]
  /\ usage = [f \in Frames |-> 0]
  /\ map = [t \in Tags |-> NoBuf]
  /\ plock = [k \in 0..(NUM_BUFFER_PARTITIONS - 1) |-> NoProc]
  /\ clockX = [f \in Frames |-> NoProc]
  /\ clockS = [f \in Frames |-> {}]
  /\ priv = [p \in Procs |-> [f \in Frames |-> 0]]
  /\ freelist = <<>>
  /\ nextVictim = 0
  /\ nblocks = InitBlocks
  /\ relpersist = RELPERSISTENCE_PERMANENT
  /\ extlock = NoProc
  /\ ckpt = <<>>
  /\ zero_damaged_pages = TRUE
  /\ per_ts_stat = <<>>
  /\ additional_pins = NoCall
  /\ xlog = NoWal
  /\ hdrlock = [f \in Frames |-> NoProc]
  /\ wait_backend_pgprocno = [f \in Frames |-> NoProc]
  /\ latch = {}
  /\ iocv = [f \in Frames |-> {}]
  /\ ghost = NoCheckpoint([io |-> [f \in Frames |-> {}]])
  /\ pc = [p \in Procs |-> "idle"]
  /\ lv = [p \in Procs |-> NoLocals]

NextEvict ==
  \/ \E p \in Procs : EvictSteps(p)
  \/ \E p \in Extenders : ExtendSteps(p)
  \/ \E p \in Modifiers : ModifySteps(p)

SpecEvict == Init /\ [][NextEvict]_vars

\* The same backends with zero_damaged_pages on: a read beyond the end of
\* the relation hands back a page of zeroes.
SpecDamaged == InitEvict /\ [][NextEvict]_vars

\* ----------------------------------- header spinlock, one step at a time
\* In this part LockBufHdr and the section it opens are separate steps, so
\* that what a process holds when it asks for another lock can be seen.
\* A compare-and-swap on the state word waits for the spinlock to be free.
LockBufHdr(p, b) ==
  /\ hdrlock[b] = NoProc
  /\ hdrlock' = [hdrlock EXCEPT ![b] = p]

UnlockBufHdr(p, b) == hdrlock' = [hdrlock EXCEPT ![b] = NoProc]

\* The labels at which a process asks or waits for a lightweight lock, the
\* I/O condition variable or its latch.
RequestsPartitionLock(p) == pc[p] \in {"idle", "IB_retry"}
RequestsContentLock(p) == pc[p] \in {"idle", "LBC_lock"}
SleepsOnIOCV(p) == pc[p] = "WIO_sleep"
WaitsForSignal(p) == pc[p] = "LBC_wait"
RequestsExtensionLock(p) == pc[p] = "EX_victim"

\* The labels between a LockBufHdr and the UnlockBufHdr that follows it.
SpinlockSections ==
  {"UB_locked", "LBC_locked", "LBC_clear", "CLC_locked", "ERR_locked",
   "SIO_locked", "WIO_locked", "FB_locked", "TIO_locked", "DR_locked",
   "IB_locked", "GVB_locked", "RRB_locked"}

\* A buffer already in the pool is read: BufferAlloc finds and pins it.
ReadBuffer_Cached(p) ==
  /\ BufferAlloc_Lookup(p)
  /\ pc'[p] = "RB_ret"
  /\ hdrlock[lv'[p].buf] = NoProc
  /\ UNCHANGED waitVars

\* Variant: A MarkBufferDirty that writes the state word without waiting
\* for the spinlock to be free.
MarkBufferDirty_Unlocked_NoWait(p) == MarkBufferDirty(p)

\* MarkBufferDirty, whose compare-and-swap waits for the spinlock.
MarkBufferDirty_Unlocked(p) ==
  /\ MarkBufferDirty(p)
  /\ \A f \in Frames : flags'[f] # flags[f] => hdrlock[f] = NoProc

\* Where UnpinBuffer returns to: ReleaseBuffer, or the release of all pins
\* after an error.
AfterUnpinBuffer(p) == IF lv[p].op = "error" THEN "ERR_pins" ELSE "idle"

\* ReleaseBuffer -> UnpinBuffer: the local count drops, with the last local
\* pin the shared count; BM_PIN_COUNT_WAITER seen in the new state word
\* sends the process to the header spinlock.
ReleaseBuffer_Unpin(p) ==
  /\ pc[p] = "idle"
  /\ \E b \in Frames :
       /\ Pinned(p, b)
       /\ priv[p][b] = 1 => ~HoldsContentLock(p, b) /\ hdrlock[b] = NoProc
       /\ UnpinBuffer(p, b)
       /\ IF priv[p][b] = 1 /\ BM_PIN_COUNT_WAITER \in flags[b]
          THEN /\ Goto(p, "UB_hdr")
               /\ Local(p, [NoLocals EXCEPT !.op = "unpin", !.buf = b])
          ELSE UNCHANGED <<pc, lv>>
  /\ UNCHANGED <<tag, flags, usage, map, plock, lockVars, freelist,
                 nextVictim, envVars, ghost>>

UnpinBuffer_LockBufHdr(p) ==
  /\ pc[p] = "UB_hdr"
  /\ LockBufHdr(p, lv[p].buf)
  /\ Goto(p, "UB_locked")
  /\ UNCHANGED <<frameVars, map, plock, lockVars, priv, freelist, nextVictim,
                 nblocks, relpersist, extlock, ckpt,
                 zero_damaged_pages, per_ts_stat, additional_pins, xlog,
                 wait_backend_pgprocno, latch, iocv, ghost, lv>>

\* Variant: An UnpinBuffer that clears BM_PIN_COUNT_WAITER without sending
\* the signal.
UnpinBuffer_WakeWaiter_NoSignal(p) ==
  /\ pc[p] = "UB_locked"
  /\ LET b == lv[p].buf IN
     /\ IF BM_PIN_COUNT_WAITER \in flags[b] /\ refcount[b] = 1
        THEN flags' = [flags EXCEPT ![b] = @ \ {BM_PIN_COUNT_WAITER}]
        ELSE UNCHANGED flags
     /\ UnlockBufHdr(p, b)
  /\ Goto(p, AfterUnpinBuffer(p))
  /\ Local(p, IF lv[p].op = "error" THEN lv[p] ELSE NoLocals)
  /\ UNCHANGED <<tag, refcount, usage, map, plock, lockVars, priv, freelist,
                 nextVictim, nblocks, relpersist, extlock, ckpt,
                 zero_damaged_pages, per_ts_stat, additional_pins, xlog,
                 wait_backend_pgprocno, latch, iocv, ghost>>

\* UnpinBuffer under the spinlock: with a waiter and one pin left clear
\* BM_PIN_COUNT_WAITER, release the spinlock, ProcSendSignal the waiter.
UnpinBuffer_WakeWaiter(p) ==
  /\ pc[p] = "UB_locked"
  /\ LET b == lv[p].buf IN
     /\ IF BM_PIN_COUNT_WAITER \in flags[b] /\ refcount[b] = 1
        THEN /\ flags' = [flags EXCEPT ![b] = @ \ {BM_PIN_COUNT_WAITER}]
             /\ latch' = latch \cup {wait_backend_pgprocno[b]}
        ELSE UNCHANGED <<flags, latch>>
     /\ UnlockBufHdr(p, b)
  /\ Goto(p, AfterUnpinBuffer(p))
  /\ Local(p, IF lv[p].op = "error" THEN lv[p] ELSE NoLocals)
  /\ UNCHANGED <<tag, refcount, usage, map, plock, lockVars, priv, freelist,
                 nextVictim, nblocks, relpersist, extlock, ckpt,
                 zero_damaged_pages, per_ts_stat,
                 additional_pins, xlog, wait_backend_pgprocno, iocv, ghost>>

\* ------------------------------------------------- LockBufferForCleanup
\* Variant: A cleanup test that does not look at the pin count.
CleanupOK_Always(b) == TRUE

\* Only the caller's pin is on the buffer.
CleanupOK(b) == refcount[b] = 1

\* LockBufferForCleanup(buffer): the caller holds exactly one pin, no
\* content lock on the buffer, and is not waiting for a pin count.
LockBufferForCleanup(p) ==
  /\ pc[p] = "idle"
  /\ \E b \in Frames :
       /\ priv[p][b] = 1
       /\ ~HoldsContentLock(p, b)
       /\ Local(p, [NoLocals EXCEPT !.op = "cleanup", !.buf = b])
  /\ Goto(p, "LBC_lock")
  /\ UNCHANGED <<frameVars, map, plock, lockVars, priv, freelist, nextVictim,
                 envVars, ghost>>

\* LockBuffer(buffer, BUFFER_LOCK_EXCLUSIVE).
LockBufferForCleanup_LockBuffer(p) ==
  /\ pc[p] = "LBC_lock"
  /\ CanLockExclusive(p, lv[p].buf)
  /\ clockX' = [clockX EXCEPT ![lv[p].buf] = p]
  /\ Goto(p, "LBC_hdr")
  /\ UNCHANGED <<frameVars, map, plock, clockS, priv, freelist, nextVictim,
                 envVars, ghost, lv>>

LockBufferForCleanup_LockBufHdr(p) ==
  /\ pc[p] = "LBC_hdr"
  /\ LockBufHdr(p, lv[p].buf)
  /\ Goto(p, "LBC_locked")
  /\ UNCHANGED <<frameVars, map, plock, lockVars, priv, freelist, nextVictim,
                 nblocks, relpersist, extlock, ckpt,
                 zero_damaged_pages, per_ts_stat, additional_pins, xlog,
                 wait_backend_pgprocno, latch, iocv, ghost, lv>>

\* Variant: A LockBufferForCleanup that takes over from the waiter it finds.
LockBufferForCleanup_Check_TakeOver(p) ==
  /\ pc[p] = "LBC_locked"
  /\ LET b == lv[p].buf IN
     /\ UnlockBufHdr(p, b)
     /\ IF CleanupOK(b)
        THEN /\ Goto(p, "LBC_ret")
             /\ UNCHANGED <<flags, wait_backend_pgprocno, lv>>
        ELSE /\ wait_backend_pgprocno' =
                  [wait_backend_pgprocno EXCEPT ![b] = p]
             /\ flags' = [flags EXCEPT ![b] = @ \cup {BM_PIN_COUNT_WAITER}]
             /\ Local(p, [lv[p] EXCEPT !.waitbuf = b])
             /\ Goto(p, "LBC_unlock")
  /\ UNCHANGED <<tag, refcount, usage, map, plock, lockVars, priv, freelist,
                 nextVictim, nblocks, relpersist, extlock, ckpt,
                 zero_damaged_pages, per_ts_stat,
                 additional_pins, xlog, latch, iocv, ghost>>

\* Under the spinlock: with a pin count of one the lock is granted; with a
\* waiter already there UnlockBufHdr and on to the error; else become the
\* waiter: wait_backend_pgprocno, PinCountWaitBuf, BM_PIN_COUNT_WAITER, and
\* UnlockBufHdr.
LockBufferForCleanup_Check(p) ==
  /\ pc[p] = "LBC_locked"
  /\ LET b == lv[p].buf IN
     /\ UnlockBufHdr(p, b)
     /\ IF CleanupOK(b)
        THEN /\ Goto(p, "LBC_ret")
             /\ UNCHANGED <<flags, wait_backend_pgprocno, lv>>
        ELSE IF BM_PIN_COUNT_WAITER \in flags[b]
        THEN /\ Goto(p, "LBC_fail")
             /\ UNCHANGED <<flags, wait_backend_pgprocno, lv>>
        ELSE /\ wait_backend_pgprocno' =
                  [wait_backend_pgprocno EXCEPT ![b] = p]
             /\ flags' = [flags EXCEPT ![b] = @ \cup {BM_PIN_COUNT_WAITER}]
             /\ Local(p, [lv[p] EXCEPT !.waitbuf = b])
             /\ Goto(p, "LBC_unlock")
  /\ UNCHANGED <<tag, refcount, usage, map, plock, lockVars, priv, freelist,
                 nextVictim, nblocks, relpersist, extlock, ckpt,
                 zero_damaged_pages, per_ts_stat,
                 additional_pins, xlog, latch, iocv, ghost>>

\* LockBuffer(buffer, BUFFER_LOCK_UNLOCK), then elog(ERROR): "multiple
\* backends attempting to wait for pincount 1".
LockBufferForCleanup_Error(p) ==
  /\ pc[p] = "LBC_fail"
  /\ LWLockRelease_Content(p, lv[p].buf)
  /\ Goto(p, "ERR_unlockbufs")
  /\ UNCHANGED <<frameVars, map, plock, priv, freelist, nextVictim, envVars,
                 ghost, lv>>

\* The waiter: LockBuffer(buffer, BUFFER_LOCK_UNLOCK).
LockBufferForCleanup_Unlock(p) ==
  /\ pc[p] = "LBC_unlock"
  /\ LWLockRelease_Content(p, lv[p].buf)
  /\ Goto(p, "LBC_wait")
  /\ UNCHANGED <<frameVars, map, plock, priv, freelist, nextVictim, envVars,
                 ghost, lv>>

\* ProcWaitForSignal returns: the latch was set by ProcSendSignal, or by
\* anything else.
LockBufferForCleanup_Wait(p) ==
  /\ pc[p] = "LBC_wait"
  /\ latch' = latch \ {p}
  /\ Goto(p, "LBC_rehdr")
  /\ UNCHANGED <<frameVars, map, plock, lockVars, priv, freelist, nextVictim,
                 nblocks, relpersist, extlock, ckpt,
                 zero_damaged_pages, per_ts_stat, additional_pins, xlog,
                 hdrlock, wait_backend_pgprocno, iocv, ghost, lv>>

\* ProcWaitForSignal raises: a cancel or die interrupt arrived.
LockBufferForCleanup_Interrupt(p) ==
  /\ pc[p] = "LBC_wait"
  /\ Goto(p, "ERR_unlockbufs")
  /\ UNCHANGED <<frameVars, map, plock, lockVars, priv, freelist, nextVictim,
                 envVars, ghost, lv>>

LockBufferForCleanup_ReLockBufHdr(p) ==
  /\ pc[p] = "LBC_rehdr"
  /\ LockBufHdr(p, lv[p].buf)
  /\ Goto(p, "LBC_clear")
  /\ UNCHANGED <<frameVars, map, plock, lockVars, priv, freelist, nextVictim,
                 nblocks, relpersist, extlock, ckpt,
                 zero_damaged_pages, per_ts_stat, additional_pins, xlog,
                 wait_backend_pgprocno, latch, iocv, ghost, lv>>

\* Variant: The flags with BM_PIN_COUNT_WAITER of buffer b cleared, whoever
\* the waiter is.
WithoutOwnWaiter_AnyWaiter(p, b) ==
  [flags EXCEPT ![b] = @ \ {BM_PIN_COUNT_WAITER}]

\* The flags with the pin-count request of process p on buffer b withdrawn,
\* if it is still there.
WithoutOwnWaiter(p, b) ==
  IF BM_PIN_COUNT_WAITER \in flags[b] /\ wait_backend_pgprocno[b] = p
  THEN [flags EXCEPT ![b] = @ \ {BM_PIN_COUNT_WAITER}] ELSE flags

\* After the wait: clear BM_PIN_COUNT_WAITER if it is still the caller's,
\* UnlockBufHdr, PinCountWaitBuf = NULL, and try again.
LockBufferForCleanup_ClearWaiter(p) ==
  /\ pc[p] = "LBC_clear"
  /\ flags' = WithoutOwnWaiter(p, lv[p].buf)
  /\ UnlockBufHdr(p, lv[p].buf)
  /\ Local(p, [lv[p] EXCEPT !.waitbuf = NoBuf])
  /\ Goto(p, "LBC_lock")
  /\ UNCHANGED <<tag, refcount, usage, map, plock, lockVars, priv, freelist,
                 nextVictim, nblocks, relpersist, extlock, ckpt,
                 zero_damaged_pages, per_ts_stat, additional_pins, xlog,
                 wait_backend_pgprocno, latch, iocv, ghost>>

\* LockBufferForCleanup has returned; the caller goes on.
LockBufferForCleanup_Return(p) ==
  /\ pc[p] = "LBC_ret"
  /\ Goto(p, "idle")
  /\ Local(p, NoLocals)
  /\ UNCHANGED <<frameVars, map, plock, lockVars, priv, freelist, nextVictim,
                 envVars, ghost>>

\* ------------------------------------- ConditionalLockBufferForCleanup
\* ConditionalLockBufferForCleanup(buffer): false at once with more than
\* one local pin or when ConditionalLockBuffer fails.
ConditionalLockBufferForCleanup(p) ==
  /\ pc[p] = "idle"
  /\ \E b \in Frames :
       /\ Pinned(p, b)
       /\ ~HoldsContentLock(p, b)
       /\ IF priv[p][b] # 1 \/ ~CanLockExclusive(p, b)
          THEN /\ Goto(p, "CLC_ret")
               /\ Local(p, [NoLocals EXCEPT !.op = "cleanup", !.buf = b,
                              !.found = FALSE])
               /\ UNCHANGED clockX
          ELSE /\ clockX' = [clockX EXCEPT ![b] = p]
               /\ Goto(p, "CLC_hdr")
               /\ Local(p, [NoLocals EXCEPT !.op = "cleanup", !.buf = b])
  /\ UNCHANGED <<frameVars, map, plock, clockS, priv, freelist, nextVictim,
                 envVars, ghost>>

ConditionalLockBufferForCleanup_LockBufHdr(p) ==
  /\ pc[p] = "CLC_hdr"
  /\ LockBufHdr(p, lv[p].buf)
  /\ Goto(p, "CLC_locked")
  /\ UNCHANGED <<frameVars, map, plock, lockVars, priv, freelist, nextVictim,
                 nblocks, relpersist, extlock, ckpt,
                 zero_damaged_pages, per_ts_stat, additional_pins, xlog,
                 wait_backend_pgprocno, latch, iocv, ghost, lv>>

\* Under the spinlock: true with a pin count of one, else UnlockBufHdr and
\* on to the release of the content lock.
ConditionalLockBufferForCleanup_Check(p) ==
  /\ pc[p] = "CLC_locked"
  /\ UnlockBufHdr(p, lv[p].buf)
  /\ IF CleanupOK(lv[p].buf)
     THEN /\ Goto(p, "CLC_ret")
          /\ Local(p, [lv[p] EXCEPT !.found = TRUE])
     ELSE /\ Goto(p, "CLC_unlock")
          /\ UNCHANGED lv
  /\ UNCHANGED <<frameVars, map, plock, lockVars, priv, freelist, nextVictim,
                 nblocks, relpersist, extlock, ckpt,
                 zero_damaged_pages, per_ts_stat, additional_pins, xlog,
                 wait_backend_pgprocno, latch, iocv, ghost>>

\* LockBuffer(buffer, BUFFER_LOCK_UNLOCK); return false.
ConditionalLockBufferForCleanup_Unlock(p) ==
  /\ pc[p] = "CLC_unlock"
  /\ LWLockRelease_Content(p, lv[p].buf)
  /\ Goto(p, "CLC_ret")
  /\ Local(p, [lv[p] EXCEPT !.found = FALSE])
  /\ UNCHANGED <<frameVars, map, plock, priv, freelist, nextVictim, envVars,
                 ghost>>

\* ConditionalLockBufferForCleanup has returned; the caller goes on.
ConditionalLockBufferForCleanup_Return(p) ==
  /\ pc[p] = "CLC_ret"
  /\ Goto(p, "idle")
  /\ Local(p, NoLocals)
  /\ UNCHANGED <<frameVars, map, plock, lockVars, priv, freelist, nextVictim,
                 envVars, ghost>>

\* --------------------------------------------- error cleanup, step by step
\* LWLockReleaseAll, then UnlockBuffers: with PinCountWaitBuf set, take
\* its header spinlock.
UnlockBuffers(p) ==
  /\ pc[p] = "ERR_unlockbufs"
  /\ clockX' = [f \in Frames |-> IF clockX[f] = p THEN NoProc ELSE clockX[f]]
  /\ clockS' = [f \in Frames |-> clockS[f] \ {p}]
  /\ IF lv[p].waitbuf = NoBuf
     THEN /\ Goto(p, "ERR_pins")
          /\ UNCHANGED hdrlock
     ELSE /\ LockBufHdr(p, lv[p].waitbuf)
          /\ Goto(p, "ERR_locked")
  /\ Local(p, [lv[p] EXCEPT !.op = "error"])
  /\ UNCHANGED <<frameVars, map, plock, priv, freelist, nextVictim,
                 nblocks, relpersist, extlock, ckpt,
                 zero_damaged_pages, per_ts_stat, additional_pins, xlog,
                 wait_backend_pgprocno, latch, iocv, ghost>>

\* UnlockBuffers under the spinlock: clear BM_PIN_COUNT_WAITER if it is
\* still the caller's, UnlockBufHdr, PinCountWaitBuf = NULL.
UnlockBuffers_ClearWaiter(p) ==
  /\ pc[p] = "ERR_locked"
  /\ flags' = WithoutOwnWaiter(p, lv[p].waitbuf)
  /\ UnlockBufHdr(p, lv[p].waitbuf)
  /\ Local(p, [lv[p] EXCEPT !.waitbuf = NoBuf])
  /\ Goto(p, "ERR_pins")
  /\ UNCHANGED <<tag, refcount, usage, map, plock, lockVars, priv, freelist,
                 nextVictim, nblocks, relpersist, extlock, ckpt,
                 zero_damaged_pages, per_ts_stat, additional_pins, xlog,
                 wait_backend_pgprocno, latch, iocv, ghost>>

\* The pins of the process are released, one buffer per step, each with
\* what UnpinBuffer does for a waiter.
ErrorRelease_Unpin(p) ==
  /\ pc[p] = "ERR_pins"
  /\ IF \E b \in Frames : Pinned(p, b)
     THEN \E b \in Frames :
            /\ Pinned(p, b)
            /\ hdrlock[b] = NoProc
            /\ priv' = [priv EXCEPT ![p][b] = 0]
            /\ refcount' = [refcount EXCEPT ![b] = @ - 1]
            /\ IF BM_PIN_COUNT_WAITER \in flags[b]
               THEN /\ Goto(p, "UB_hdr")
                    /\ Local(p, [lv[p] EXCEPT !.buf = b])
               ELSE UNCHANGED <<pc, lv>>
     ELSE /\ Goto(p, "idle")
          /\ Local(p, NoLocals)
          /\ UNCHANGED <<priv, refcount>>
  /\ UNCHANGED <<tag, flags, usage, map, plock, lockVars, freelist,
                 nextVictim, envVars, ghost>>

\* ------------------------------------- StartBufferIO, WaitIO, FlushBuffer
StartBufferIO_LockBufHdr(p) ==
  /\ pc[p] = "SIO"
  /\ LockBufHdr(p, lv[p].buf)
  /\ Goto(p, "SIO_locked")
  /\ UNCHANGED <<frameVars, map, plock, lockVars, priv, freelist, nextVictim,
                 nblocks, relpersist, extlock, ckpt,
                 zero_damaged_pages, per_ts_stat, additional_pins, xlog,
                 wait_backend_pgprocno, latch, iocv, ghost, lv>>

\* StartBufferIO under the spinlock: with an I/O active UnlockBufHdr and
\* WaitIO; else UnlockBufHdr and return, with BM_IO_IN_PROGRESS set if the
\* work is still to do.
StartBufferIO_Check(p) ==
  /\ pc[p] = "SIO_locked"
  /\ LET b == lv[p].buf IN
     /\ UnlockBufHdr(p, b)
     /\ IF StartBufferIOBusy(flags[b])
        THEN /\ Goto(p, "WIO_prep")
             /\ UNCHANGED <<flags, ghost, lv>>
        ELSE IF StartBufferIOMustDo(flags[b], lv[p].forInput)
        THEN /\ flags' = [flags EXCEPT ![b] = @ \cup {BM_IO_IN_PROGRESS}]
             /\ ghost' = [ghost EXCEPT !.io[b] = @ \cup {p}]
             /\ Goto(p, AfterStartBufferIO(p, TRUE))
             /\ UNCHANGED lv
        ELSE /\ Goto(p, AfterStartBufferIO(p, FALSE))
             /\ Local(p, AfterFlushLocals(p))
             /\ UNCHANGED <<flags, ghost>>
  /\ UNCHANGED <<tag, refcount, usage, map, plock, lockVars, priv, freelist,
                 nextVictim, nblocks, relpersist, extlock, ckpt,
                 zero_damaged_pages, per_ts_stat,
                 additional_pins, xlog, wait_backend_pgprocno, latch, iocv>>

\* WaitIO: ConditionVariablePrepareToSleep puts the process on the wait list
\* of the buffer's I/O condition variable before the first test.
WaitIO_PrepareToSleep(p) ==
  /\ pc[p] = "WIO_prep"
  /\ iocv' = [iocv EXCEPT ![lv[p].buf] = @ \cup {p}]
  /\ Goto(p, "WIO")
  /\ UNCHANGED <<frameVars, map, plock, lockVars, priv, freelist, nextVictim,
                 nblocks, relpersist, extlock, ckpt,
                 zero_damaged_pages, per_ts_stat, additional_pins, xlog,
                 hdrlock, wait_backend_pgprocno, latch, ghost, lv>>

WaitIO_LockBufHdr(p) ==
  /\ pc[p] = "WIO"
  /\ LockBufHdr(p, lv[p].buf)
  /\ Goto(p, "WIO_locked")
  /\ UNCHANGED <<frameVars, map, plock, lockVars, priv, freelist, nextVictim,
                 nblocks, relpersist, extlock, ckpt,
                 zero_damaged_pages, per_ts_stat, additional_pins, xlog,
                 wait_backend_pgprocno, latch, iocv, ghost, lv>>

\* WaitIO: read the state word, UnlockBufHdr; with BM_IO_IN_PROGRESS clear
\* leave the loop and ConditionVariableCancelSleep, else
\* ConditionVariableSleep.
WaitIO_Check(p) ==
  /\ pc[p] = "WIO_locked"
  /\ UnlockBufHdr(p, lv[p].buf)
  /\ IF BM_IO_IN_PROGRESS \in flags[lv[p].buf]
     THEN /\ Goto(p, "WIO_sleep")
          /\ UNCHANGED iocv
     ELSE /\ Goto(p, IF lv[p].op = "drop" THEN "IB_retry" ELSE "SIO")
          /\ iocv' = [iocv EXCEPT ![lv[p].buf] = @ \ {p}]
  /\ UNCHANGED <<frameVars, map, plock, lockVars, priv, freelist, nextVictim,
                 nblocks, relpersist, extlock, ckpt,
                 zero_damaged_pages, per_ts_stat, additional_pins, xlog,
                 wait_backend_pgprocno, latch, ghost, lv>>

\* ConditionVariableSleep returns once a broadcast has taken the process off
\* the wait list; it puts the process back on the list before it returns.
WaitIO_Sleep(p) ==
  /\ pc[p] = "WIO_sleep"
  /\ p \notin iocv[lv[p].buf]
  /\ iocv' = [iocv EXCEPT ![lv[p].buf] = @ \cup {p}]
  /\ Goto(p, "WIO")
  /\ UNCHANGED <<frameVars, map, plock, lockVars, priv, freelist, nextVictim,
                 nblocks, relpersist, extlock, ckpt,
                 zero_damaged_pages, per_ts_stat, additional_pins, xlog,
                 hdrlock, wait_backend_pgprocno, latch, ghost, lv>>

FlushBuffer_LockBufHdr(p) ==
  /\ pc[p] = "FB_lsn"
  /\ LockBufHdr(p, lv[p].buf)
  /\ Goto(p, "FB_locked")
  /\ UNCHANGED <<frameVars, map, plock, lockVars, priv, freelist, nextVictim,
                 nblocks, relpersist, extlock, ckpt,
                 zero_damaged_pages, per_ts_stat, additional_pins, xlog,
                 wait_backend_pgprocno, latch, iocv, ghost, lv>>

\* FlushBuffer under the spinlock: read the LSN, clear BM_JUST_DIRTIED,
\* UnlockBufHdr.
FlushBuffer_ClearJustDirtied_Locked(p) ==
  /\ pc[p] = "FB_locked"
  /\ flags' = [flags EXCEPT ![lv[p].buf] = @ \ {BM_JUST_DIRTIED}]
  /\ UnlockBufHdr(p, lv[p].buf)
  /\ Goto(p, "FB_smgr")
  /\ UNCHANGED <<tag, refcount, usage, map, plock, lockVars, priv, freelist,
                 nextVictim, nblocks, relpersist, extlock, ckpt,
                 zero_damaged_pages, per_ts_stat, additional_pins, xlog,
                 wait_backend_pgprocno, latch, iocv, ghost, lv>>

\* XLogFlush and smgrwrite; then TerminateBufferIO(buf, true, 0), or, when
\* one of them raised, LWLockReleaseAll and AbortBufferIO:
\* TerminateBufferIO(buf, false, BM_IO_ERROR).
FlushBuffer_SmgrWrite(p) ==
  /\ pc[p] = "FB_smgr"
  /\ \/ /\ Local(p, [lv[p] EXCEPT !.found = TRUE, !.mask = {}])
        /\ UNCHANGED lockVars
     \/ /\ Local(p, [lv[p] EXCEPT !.found = FALSE, !.mask = {BM_IO_ERROR}])
        /\ clockX' = [f \in Frames |-> IF clockX[f] = p THEN NoProc
                                        ELSE clockX[f]]
        /\ clockS' = [f \in Frames |-> clockS[f] \ {p}]
  /\ Goto(p, "TIO")
  /\ UNCHANGED <<frameVars, map, plock, priv, freelist, nextVictim, envVars,
                 ghost>>

TerminateBufferIO_LockBufHdr(p) ==
  /\ pc[p] = "TIO"
  /\ LockBufHdr(p, lv[p].buf)
  /\ Goto(p, "TIO_locked")
  /\ UNCHANGED <<frameVars, map, plock, lockVars, priv, freelist, nextVictim,
                 nblocks, relpersist, extlock, ckpt,
                 zero_damaged_pages, per_ts_stat, additional_pins, xlog,
                 wait_backend_pgprocno, latch, iocv, ghost, lv>>

\* TerminateBufferIO under the spinlock, then UnlockBufHdr.
TerminateBufferIO_Locked(p) ==
  /\ pc[p] = "TIO_locked"
  /\ LET b == lv[p].buf IN
     /\ flags' = [flags EXCEPT ![b] =
                    TerminateBufferIO(@, lv[p].found, lv[p].mask)]
     /\ ghost' = [ghost EXCEPT !.io[b] = @ \ {p}]
     /\ UnlockBufHdr(p, b)
  /\ Goto(p, "TIO_cv")
  /\ UNCHANGED <<tag, refcount, usage, map, plock, lockVars, priv, freelist,
                 nextVictim, nblocks, relpersist, extlock, ckpt,
                 zero_damaged_pages, per_ts_stat, additional_pins, xlog,
                 wait_backend_pgprocno, latch, iocv, lv>>

\* Variant: A TerminateBufferIO that wakes nobody.
TerminateBufferIO_Broadcast_Nobody(p) ==
  /\ pc[p] = "TIO_cv"
  /\ IF lv[p].found
     THEN /\ Goto(p, AfterStartBufferIO(p, FALSE))
          /\ Local(p, AfterFlushLocals(p))
     ELSE /\ Goto(p, "ERR_unlockbufs")
          /\ UNCHANGED lv
  /\ UNCHANGED <<frameVars, map, plock, lockVars, priv, freelist, nextVictim,
                 envVars, ghost>>

\* TerminateBufferIO: ConditionVariableBroadcast takes every sleeper off the
\* wait list and wakes it; then back in the caller of FlushBuffer, or on
\* with the error cleanup.
TerminateBufferIO_Broadcast(p) ==
  /\ pc[p] = "TIO_cv"
  /\ iocv' = [iocv EXCEPT ![lv[p].buf] = {}]
  /\ IF lv[p].found
     THEN /\ Goto(p, AfterStartBufferIO(p, FALSE))
          /\ Local(p, AfterFlushLocals(p))
     ELSE /\ Goto(p, "ERR_unlockbufs")
          /\ UNCHANGED lv
  /\ UNCHANGED <<frameVars, map, plock, lockVars, priv, freelist, nextVictim,
                 nblocks, relpersist, extlock, ckpt,
                 zero_damaged_pages, per_ts_stat, additional_pins, xlog,
                 hdrlock, wait_backend_pgprocno, latch, ghost>>

\* ---------------------------- DropRelationBuffers, InvalidateBuffer again
\* One buffer of the scan: LockBufHdr, or the end of the scan.
DropRelationBuffers_LockBufHdr(p) ==
  /\ pc[p] = "DR_scan"
  /\ IF lv[p].i > NBuffers
     THEN /\ Goto(p, "idle")
          /\ Local(p, NoLocals)
          /\ UNCHANGED hdrlock
     ELSE /\ LockBufHdr(p, lv[p].i)
          /\ Goto(p, "DR_locked")
          /\ UNCHANGED lv
  /\ UNCHANGED <<frameVars, map, plock, lockVars, priv, freelist, nextVictim,
                 nblocks, relpersist, extlock, ckpt,
                 zero_damaged_pages, per_ts_stat, additional_pins, xlog,
                 wait_backend_pgprocno, latch, iocv, ghost>>

\* Variant: An InvalidateBuffer that keeps the spinlock it was entered with.
DropRelationBuffers_Check_KeepSpinlock(p) ==
  /\ pc[p] = "DR_locked"
  /\ LET b == lv[p].i IN
     IF tag[b] # NoTag /\ blockNum(tag[b]) >= lv[p].first
     THEN /\ Goto(p, "IB_retry")
          /\ Local(p, [lv[p] EXCEPT !.buf = b, !.otag = tag[b]])
          /\ UNCHANGED hdrlock
     ELSE /\ UnlockBufHdr(p, b)
          /\ Local(p, [lv[p] EXCEPT !.i = @ + 1])
          /\ Goto(p, "DR_scan")
  /\ UNCHANGED <<frameVars, map, plock, lockVars, priv, freelist, nextVictim,
                 nblocks, relpersist, extlock, ckpt,
                 zero_damaged_pages, per_ts_stat, additional_pins, xlog,
                 wait_backend_pgprocno, latch, iocv, ghost>>

\* Under the spinlock: a buffer of the relation at or after firstDelBlock
\* goes to InvalidateBuffer, which saves the tag and releases the spinlock;
\* for any other buffer UnlockBufHdr.
DropRelationBuffers_Check(p) ==
  /\ pc[p] = "DR_locked"
  /\ LET b == lv[p].i IN
     /\ UnlockBufHdr(p, b)
     /\ IF tag[b] # NoTag /\ blockNum(tag[b]) >= lv[p].first
        THEN /\ Goto(p, "IB_retry")
             /\ Local(p, [lv[p] EXCEPT !.buf = b, !.otag = tag[b]])
        ELSE /\ Local(p, [lv[p] EXCEPT !.i = @ + 1])
             /\ Goto(p, "DR_scan")
  /\ UNCHANGED <<frameVars, map, plock, lockVars, priv, freelist, nextVictim,
                 nblocks, relpersist, extlock, ckpt,
                 zero_damaged_pages, per_ts_stat, additional_pins, xlog,
                 wait_backend_pgprocno, latch, iocv, ghost>>

\* InvalidateBuffer at retry: LWLockAcquire(oldPartitionLock, LW_EXCLUSIVE).
InvalidateBuffer_LockPartition(p) ==
  /\ pc[p] = "IB_retry"
  /\ plock[Part(lv[p].otag)] = NoProc
  /\ plock' = [plock EXCEPT ![Part(lv[p].otag)] = p]
  /\ Goto(p, "IB_hdr")
  /\ UNCHANGED <<frameVars, map, lockVars, priv, freelist, nextVictim,
                 envVars, ghost, lv>>

InvalidateBuffer_LockBufHdr(p) ==
  /\ pc[p] = "IB_hdr"
  /\ LockBufHdr(p, lv[p].buf)
  /\ Goto(p, "IB_locked")
  /\ UNCHANGED <<frameVars, map, plock, lockVars, priv, freelist, nextVictim,
                 nblocks, relpersist, extlock, ckpt,
                 zero_damaged_pages, per_ts_stat, additional_pins, xlog,
                 wait_backend_pgprocno, latch, iocv, ghost, lv>>

\* InvalidateBuffer under both locks: return if the tag changed; with a pin
\* on the buffer release both and WaitIO (an error for a pin of its own);
\* else clear the tag, the flags and the usage count and UnlockBufHdr.
InvalidateBuffer_Check(p) ==
  /\ pc[p] = "IB_locked"
  /\ LET b == lv[p].buf IN
     /\ UnlockBufHdr(p, b)
     /\ IF tag[b] # lv[p].otag
        THEN /\ plock' = [plock EXCEPT ![Part(lv[p].otag)] = NoProc]
             /\ Goto(p, AfterInvalidateBuffer(p))
             /\ Local(p, [lv[p] EXCEPT !.i = @ + 1, !.buf = NoBuf,
                            !.otag = NoTag])
             /\ UNCHANGED <<tag, flags, usage>>
        ELSE IF refcount[b] # 0
        THEN /\ plock' = [plock EXCEPT ![Part(lv[p].otag)] = NoProc]
             /\ Goto(p, IF priv[p][b] > 0 THEN "ERR_unlockbufs"
                        ELSE "WIO_prep")
             /\ UNCHANGED <<tag, flags, usage, lv>>
        ELSE /\ tag' = [tag EXCEPT ![b] = NoTag]
             /\ flags' = [flags EXCEPT ![b] = @ \ BUF_FLAG_MASK]
             /\ usage' = [usage EXCEPT ![b] = 0]
             /\ Local(p, [lv[p] EXCEPT !.btagvalid = BM_TAG_VALID \in flags[b]])
             /\ Goto(p, "IB_delete")
             /\ UNCHANGED plock
  /\ UNCHANGED <<refcount, map, lockVars, priv, freelist, nextVictim,
                 nblocks, relpersist, extlock, ckpt,
                 zero_damaged_pages, per_ts_stat, additional_pins, xlog,
                 wait_backend_pgprocno, latch, iocv, ghost>>

\* ----------------------------- a victim and the extension lock, again
\* StrategyGetBuffer, one candidate: the head of the free list, else the
\* frame under the clock hand; LockBufHdr on it.
StrategyGetBuffer_LockBufHdr(p) ==
  /\ pc[p] = "GVB"
  /\ LET fromList == freelist # <<>>
         b == IF fromList THEN Head(freelist) ELSE nextVictim + 1
     IN  /\ LockBufHdr(p, b)
         /\ freelist' = IF fromList THEN Tail(freelist) ELSE freelist
         /\ nextVictim' = IF fromList THEN nextVictim
                          ELSE (nextVictim + 1) % NBuffers
         /\ Local(p, [lv[p] EXCEPT !.vic = b, !.found = fromList])
  /\ Goto(p, "GVB_locked")
  /\ UNCHANGED <<frameVars, map, plock, lockVars, priv, nblocks, relpersist,
                 extlock, ckpt,
                 zero_damaged_pages, per_ts_stat,
                 additional_pins, xlog, wait_backend_pgprocno,
                 latch, iocv, ghost>>

\* Under the spinlock: an unpinned frame with usage count zero is returned
\* with the spinlock held and GetVictimBuffer's PinBuffer_Locked releases
\* it; any other candidate is passed over and the spinlock released.
StrategyGetBuffer_Check(p) ==
  /\ pc[p] = "GVB_locked"
  /\ LET b == lv[p].vic IN
     /\ UnlockBufHdr(p, b)
     /\ IF refcount[b] = 0 /\ usage[b] = 0
        THEN /\ GetVictimBuffer_Pin(p, b)
             /\ UNCHANGED usage
        ELSE IF ~lv[p].found /\ refcount[b] = 0
        THEN /\ usage' = [usage EXCEPT ![b] = @ - 1]
             /\ Local(p, [lv[p] EXCEPT !.try = NBuffers])
             /\ Goto(p, "GVB")
             /\ UNCHANGED <<refcount, priv>>
        ELSE /\ UNCHANGED <<refcount, priv, usage>>
             /\ IF ~lv[p].found /\ lv[p].try = 1
                THEN /\ Goto(p, "ERR_unlockbufs")
                     /\ Local(p, [lv[p] EXCEPT !.try = 0])
                ELSE /\ Local(p, [lv[p] EXCEPT
                                    !.try = IF lv[p].found THEN @ ELSE @ - 1])
                     /\ Goto(p, "GVB")
  /\ UNCHANGED <<tag, flags, map, plock, lockVars, freelist, nextVictim,
                 nblocks, relpersist, extlock, ckpt,
                 zero_damaged_pages, per_ts_stat, additional_pins, xlog,
                 wait_backend_pgprocno, latch, iocv, ghost>>

\* UnpinBuffer(victim), whose compare-and-swap waits for the spinlock.
Extend_UnpinVictim_Unlocked(p) ==
  /\ Extend_UnpinVictim(p)
  /\ hdrlock[lv[p].vic] = NoProc

\* ExtendBufferedRelShared for a relation that has extend_upto blocks
\* already: a victim is acquired, the extension lock taken and released, the
\* victim given back.
ExtendToSteps(p) ==
  \/ ExtendBufferedRelShared(p)
  \/ StrategyGetBuffer_LockBufHdr(p)
  \/ StrategyGetBuffer_Check(p)
  \/ Extend_Lock(p)
  \/ Extend_FreeVictim(p)
  \/ Extend_UnpinVictim_Unlocked(p)

\* -------------------------------------------- the lock-order workload
\* What a backend does with the buffers of the pool.
PinSteps(p) ==
  \/ ReadBuffer_Cached(p)
  \/ ReadBuffer_Return(p)
  \/ ReleaseBuffer_Unpin(p)
  \/ UnpinBuffer_LockBufHdr(p)
  \/ UnpinBuffer_WakeWaiter(p)
  \/ LockBuffer(p)
  \/ UnlockBuffer(p)
  \/ UnlockBuffers(p)
  \/ UnlockBuffers_ClearWaiter(p)
  \/ ErrorRelease_Unpin(p)

CleanupSteps(p) ==
  \/ LockBufferForCleanup(p)
  \/ LockBufferForCleanup_LockBuffer(p)
  \/ LockBufferForCleanup_LockBufHdr(p)
  \/ LockBufferForCleanup_Check(p)
  \/ LockBufferForCleanup_Error(p)
  \/ LockBufferForCleanup_Unlock(p)
  \/ LockBufferForCleanup_Wait(p)
  \/ LockBufferForCleanup_Interrupt(p)
  \/ LockBufferForCleanup_ReLockBufHdr(p)
  \/ LockBufferForCleanup_ClearWaiter(p)
  \/ LockBufferForCleanup_Return(p)
  \/ ConditionalLockBufferForCleanup(p)
  \/ ConditionalLockBufferForCleanup_LockBufHdr(p)
  \/ ConditionalLockBufferForCleanup_Check(p)
  \/ ConditionalLockBufferForCleanup_Unlock(p)
  \/ ConditionalLockBufferForCleanup_Return(p)

WriteSteps(p) ==
  \/ MarkBufferDirty_Unlocked(p)
  \/ FlushOneBuffer(p)
  \/ StartBufferIO_LockBufHdr(p)
  \/ StartBufferIO_Check(p)
  \/ WaitIO_PrepareToSleep(p)
  \/ WaitIO_LockBufHdr(p)
  \/ WaitIO_Check(p)
  \/ WaitIO_Sleep(p)
  \/ FlushBuffer_LockBufHdr(p)
  \/ FlushBuffer_ClearJustDirtied_Locked(p)
  \/ FlushBuffer_SmgrWrite(p)
  \/ TerminateBufferIO_LockBufHdr(p)
  \/ TerminateBufferIO_Locked(p)
  \/ TerminateBufferIO_Broadcast(p)

InvalidateSteps(p) ==
  \/ DropRelationBuffers(p)
  \/ DropRelationBuffers_LockBufHdr(p)
  \/ DropRelationBuffers_Check(p)
  \/ InvalidateBuffer_LockPartition(p)
  \/ InvalidateBuffer_LockBufHdr(p)
  \/ InvalidateBuffer_Check(p)
  \/ InvalidateBuffer_Delete(p)
  \/ InvalidateBuffer_Free(p)

\* The relation has extend_upto blocks; the first InitBlocks of them are in
\* buffers that nobody has pinned.  The other buffers are on the free list.
Cached(f) == f \in Tags /\ blockNum(f) < InitBlocks

InitLockOrder ==
  /\ relpersist = RELPERSISTENCE_PERMANENT
  /\ nblocks = extend_upto
  /\ tag = [f \in Frames |-> IF Cached(f) THEN f ELSE NoTag]
  /\ flags = [f \in Frames |->
                IF Cached(f) THEN {BM_TAG_VALID, BM_VALID, BM_PERMANENT}
                ELSE {}]
  /\ refcount = [f \in Frames |-> 0]
  /\ usage = [f \in Frames |-> IF Cached(f) THEN 1 ELSE 0]
  /\ map = [t \in Tags |-> IF t \in Frames /\ Cached(t) THEN t ELSE NoBuf]
  /\ plock = [k \in 0..(NUM_BUFFER_PARTITIONS - 1) |-> NoProc]
  /\ clockX = [f \in Frames |-> NoProc]
  /\ clockS = [f \in Frames |-> {}]
  /\ priv = [p \in Procs |-> [f \in Frames |-> 0]]
  /\ freelist = [i \in 1..(NBuffers - InitBlocks) |-> InitBlocks + i]
  /\ nextVictim = 0
  /\ extlock = NoProc
  /\ ckpt = <<>>
  /\ zero_damaged_pages = FALSE
  /\ per_ts_stat = <<>>
  /\ additional_pins = NoCall
  /\ xlog = NoWal
  /\ hdrlock = [f \in Frames |-> NoProc]
  /\ wait_backend_pgprocno = [f \in Frames |-> NoProc]
  /\ latch = {}
  /\ iocv = [f \in Frames |-> {}]
  /\ ghost = NoCheckpoint([io |-> [f \in Frames |-> {}]])
  /\ pc = [p \in Procs |-> "idle"]
  /\ lv = [p \in Procs |-> NoLocals]

NextLockOrder ==
  \/ \E p \in Procs : PinSteps(p) \/ CleanupSteps(p) \/ WriteSteps(p)
  \/ \E p \in Droppers : InvalidateSteps(p)
  \/ \E p \in Extenders : ExtendToSteps(p)

SpecLockOrder == InitLockOrder /\ [][NextLockOrder]_vars

TypeOK ==
  /\ \A f \in Frames : refcount[f] \in 0..NProcs /\ usage[f] \in 0..MaxUsage
  /\ \A p \in Procs, f \in Frames : priv[p][f] \in 0..MaxPins
  /\ nblocks \in 0..NBlocks
  /\ \A f \in Frames : flags[f] \subseteq BUF_FLAG_MASK

\* ================================================================ properties

TagValid(f) == BM_TAG_VALID \in flags[f]

\* Every frame with BM_TAG_VALID is in the mapping table under its tag.
TagValidFramesMapped ==
  \A f \in Frames : TagValid(f) => tag[f] \in Tags /\ map[tag[f]] = f

\* The entry of tag t refers to a frame that has the tag and BM_TAG_VALID.
EntryConsistent(t) ==
  map[t] # NoBuf => tag[map[t]] = t /\ TagValid(map[t])

\* C1, as stated: in every reachable state every frame with TAG_VALID is
\* mapped under its tag to its own index, and every mapping entry (t, i)
\* refers to a frame i whose tag is t and whose TAG_VALID bit is set.
C1_MappingConsistentEveryState ==
  /\ TagValidFramesMapped
  /\ \A t \in Tags : EntryConsistent(t)

\* C1, amended: every frame with TAG_VALID is mapped under its tag to its
\* own index in every reachable state; every mapping entry (t, i) refers to
\* a frame i with tag t and TAG_VALID whenever no process holds the
\* partition lock of t exclusively.  Under that lock the entry exists before
\* the tag is set (BufferAlloc, extend) and after the tag is cleared
\* (InvalidateVictimBuffer, InvalidateBuffer).
C1_MappingConsistentUnlocked ==
  /\ TagValidFramesMapped
  /\ \A t \in Tags : plock[Part(t)] = NoProc => EntryConsistent(t)

\* C1: a frame is mapped again after the relation was extended and a buffer
\* was invalidated and put on the free list.
C1_Witness ==
  /\ nblocks > InitBlocks
  /\ freelist # <<>>
  /\ \E f \in Frames :
       /\ TagValid(f) /\ map[tag[f]] = f
       /\ plock[Part(tag[f])] = NoProc
       /\ ~InList(freelist, f)

\* C2: no two distinct frames with TAG_VALID set have equal tags.
C2_OneFramePerTag ==
  \A f, g \in Frames :
    f # g /\ TagValid(f) /\ TagValid(g) => tag[f] # tag[g]

\* C2: a process that missed found, at BufTableInsert, the frame another
\* process installed under the same tag in the meantime.
C2_Witness ==
  \E p \in Procs :
    /\ pc[p] = "BA_free"
    /\ lv[p].vic # lv[p].buf
    /\ TagValid(lv[p].buf) /\ tag[lv[p].buf] = lv[p].tag
    /\ ~TagValid(lv[p].vic)

\* The tag or BM_TAG_VALID of frame f changes in this step.
TagChanges(f) ==
  tag'[f] # tag[f] \/ TagValid(f) # (BM_TAG_VALID \in flags'[f])

\* C3: the tag and TAG_VALID of a frame change only in a step of a process
\* q while no other process has the frame pinned; they are cleared only
\* with REFCOUNT 1, the pin being q's own, in InvalidateVictimBuffer, or with
\* REFCOUNT 0 in InvalidateBuffer; and a mapping entry is deleted only by
\* the process that cleared the tag, under the partition lock it took for
\* that.
C3_NoEvictionOfPinnedFrame ==
  [][(\A f \in Frames :
        TagChanges(f) =>
          \E q \in Procs :
            /\ pc'[q] # pc[q] /\ lv[q].buf = f
            /\ \A p \in Procs \ {q} : priv[p][f] = 0
            /\ TagValid(f) =>
                 \/ pc[q] = "IVB" /\ refcount[f] = 1 /\ priv[q][f] > 0
                 \/ pc[q] = "IB_retry" /\ refcount[f] = 0)
     /\
     (\A t \in Tags :
        map[t] # NoBuf /\ map'[t] # map[t] =>
          \E q \in Procs :
            /\ pc[q] \in {"IVB_delete", "IB_delete"}
            /\ lv[q].otag = t /\ lv[q].buf = map[t]
            /\ plock[Part(t)] = q
            /\ tag[map[t]] # t)
    ]_vars

\* C3: InvalidateVictimBuffer gave a victim up because another process
\* pinned it after it was chosen.
C3_Witness ==
  \E p \in Procs :
    /\ pc[p] = "GVB_unpin"
    /\ refcount[lv[p].buf] > 1
    /\ TagValid(lv[p].buf)

C6_InsertCollision ==
  [][\A p \in Procs :
       /\ pc[p] = "BA_insert" /\ pc'[p] = "BA_free" =>
            LET v == lv[p].buf
                w == map[lv[p].tag]
            IN  /\ w # NoBuf /\ w # v /\ map' = map
                /\ lv'[p].buf = w /\ lv'[p].vic = v
                /\ tag'[v] = NoTag /\ flags'[v] = {} /\ refcount'[v] = 0
                /\ priv'[p][v] = 0
                /\ priv'[p][w] = priv[p][w]
       /\ pc[p] = "BA_insert" /\ pc'[p] = "BA_settag" =>
            /\ map[lv[p].tag] = NoBuf
            /\ map' = [map EXCEPT ![lv[p].tag] = lv[p].buf]
       /\ pc[p] = "BA_free" /\ pc'[p] # "BA_free" =>
            /\ pc'[p] = "BA_pin"
            /\ InList(freelist', lv[p].vic)
            /\ priv'[p] = priv[p]
       /\ pc[p] = "BA_pin" /\ pc'[p] # "BA_pin" =>
            /\ map[lv[p].tag] = lv[p].buf
            /\ priv'[p][lv[p].buf] = priv[p][lv[p].buf] + 1
     ]_vars

\* C6: the loser of the race is about to pin the frame of the winner, who is
\* reading the block into it.
C6_Witness ==
  \E p, q \in Procs :
    /\ p # q
    /\ pc[p] = "BA_pin" /\ pc[q] = "RB_read"
    /\ lv[q].tag = lv[p].tag /\ lv[q].buf = lv[p].buf

\* Positions of ReadBuffer at which the buffer has been chosen and pinned.
HasBuffer(p) ==
  lv[p].op = "read" /\ pc[p] \in {"SIO", "WaitIO", "RB_read", "RB_ret"}

\* Readers of one tag have pinned the same frame, and at most one process is
\* reading a frame from storage.
C7_SameFrameOneReader ==
  \A p, q \in Procs :
    p # q =>
      /\ HasBuffer(p) /\ HasBuffer(q) /\ lv[p].tag = lv[q].tag =>
           lv[p].buf = lv[q].buf
      /\ ~(pc[p] = "RB_read" /\ pc[q] = "RB_read" /\ lv[p].buf = lv[q].buf)

RECURSIVE SumOfLocalPins(_, _)
SumOfLocalPins(n, f) ==
  IF n = 0 THEN 0 ELSE priv[n][f] + SumOfLocalPins(n - 1, f)

\* C10, as stated: REFCOUNT is at least the sum over all processes of
\* their local pin counts for the frame.
C10_RefcountAtLeastSum ==
  \A f \in Frames : refcount[f] >= SumOfLocalPins(NProcs, f)

\* C10, amended: REFCOUNT is at least the number of processes whose local
\* pin count for the frame is positive; a process's second and later pins
\* raise only its local count.
C10_RefcountAtLeastPinners ==
  \A f \in Frames :
    refcount[f] >= Cardinality({p \in Procs : priv[p][f] > 0})

\* C10: a process holds two pins on a frame whose REFCOUNT is 1.
C10_Witness ==
  \E p \in Procs, f \in Frames : priv[p][f] = 2 /\ refcount[f] = 1

\* ------------------------------------------------------- I/O and flushing

\* The processes whose StartBufferIO on frame f returned true and that have
\* not yet called TerminateBufferIO or AbortBufferIO are at most one, and
\* BM_IO_IN_PROGRESS is set exactly while there is one.
OneIOHolder ==
  \A f \in Frames :
    /\ Cardinality(ghost.io[f]) <= 1
    /\ BM_IO_IN_PROGRESS \in flags[f] <=> ghost.io[f] # {}

\* C4: at most one process holds the I/O of a frame between a StartBufferIO
\* that returned true and the next TerminateBufferIO or AbortBufferIO, and a
\* StartBufferIO decides, and a WaitIO ends, only with BM_IO_IN_PROGRESS
\* clear.
C4_OneIOInProgress ==
  [][OneIOHolder'
     /\
     (\A p \in Procs :
        /\ pc[p] = "SIO" /\ pc'[p] \notin {"SIO", "WaitIO"} =>
             BM_IO_IN_PROGRESS \notin flags[lv[p].buf]
        /\ pc[p] = "WaitIO" /\ pc'[p] # "WaitIO" =>
             BM_IO_IN_PROGRESS \notin flags[lv[p].buf])
    ]_vars

\* C4: a process waits in StartBufferIO for the write of another process.
C4_Witness ==
  \E p, q \in Procs :
    /\ p # q
    /\ pc[p] = "WaitIO" /\ pc[q] = "FB_write"
    /\ ghost.io[lv[p].buf] = {q}

\* Positions inside FlushBuffer.
InFlushBuffer(p) ==
  lv[p].fctx # "none" /\ pc[p] \in {"SIO", "WaitIO", "FB_lsn", "FB_write"}

\* FlushBuffer returns to its caller in this step.
FlushBufferReturns(p) ==
  /\ InFlushBuffer(p)
  /\ pc'[p] \notin {"SIO", "WaitIO", "FB_lsn", "FB_write", "ERR_abort"}

\* C8: in the state FlushBuffer returns in, whether after the write or at
\* once because StartBufferIO returned false, a frame without JUST_DIRTIED
\* is without DIRTY.
C8_FlushLeavesCleanOrJustDirtied ==
  [][\A p \in Procs :
       FlushBufferReturns(p) =>
         (BM_JUST_DIRTIED \notin flags'[lv[p].buf]
            => BM_DIRTY \notin flags'[lv[p].buf])
    ]_vars

\* C8: a frame was dirtied again while it is being written, and another
\* process is waiting to flush it.
C8_Witness ==
  \E p, q \in Procs :
    /\ p # q
    /\ pc[p] = "FB_write" /\ BM_JUST_DIRTIED \in flags[lv[p].buf]
    /\ InFlushBuffer(q) /\ pc[q] = "WaitIO" /\ lv[q].buf = lv[p].buf

\* BufferSync returns in this step.
BufferSyncReturns(p) ==
  pc[p] \in {"BS_mark", "BS_flush"} /\ pc'[p] = "idle"

RECURSIVE SumOfNet(_, _)
SumOfNet(n, f) ==
  IF n = 0 THEN 0 ELSE ghost.net[n][f] + SumOfNet(n - 1, f)

\* The counts of frame f are what they were at the start.
CountsAsAtStart(f) ==
  /\ refcount[f] = ghost.start.refcount[f]
  /\ \A p \in Procs : priv[p][f] = ghost.start.priv[p][f]

\* C11, as stated: after any sequence of PinBuffer, PinBuffer_Locked,
\* IncrBufferRefCount and UnpinBuffer in which the total number of pins of
\* a frame equals the total number of unpins, REFCOUNT and every local
\* count of the frame are what they were at the start.
C11_BalancedInTotal ==
  \A f \in Frames : SumOfNet(NProcs, f) = 0 => CountsAsAtStart(f)

\* C11, amended: after any such sequence in which every process has
\* unpinned the frame as often as it has pinned it, REFCOUNT and every local
\* count of the frame are what they were at the start.
C11_BalancedPerProcess ==
  \A f \in Frames :
    (\A p \in Procs : ghost.net[p][f] = 0) => CountsAsAtStart(f)

\* C11: a process that had no pin on a frame has pinned it and has given
\* all its pins back, while another process has the frame pinned.
C11_Witness ==
  \E p \in Procs, f \in Frames :
    /\ ghost.pinop.op = "UnpinBuffer" /\ ghost.pinop.proc = p
    /\ ghost.pinop.buf = f
    /\ ghost.net[p][f] = 0 /\ priv[p][f] = 0
    /\ ghost.start.priv[p][f] = 0
    /\ \E q \in Procs \ {p} : priv[q][f] > 0

\* ------------------------------------------------------------- C20
\* C20: a first pin by PinBuffer with the default strategy raises the usage
\* count by one unless it is BM_MAX_USAGE_COUNT, which it never exceeds;
\* with another strategy it raises the usage count only from 0 to 1; a pin
\* of a buffer the process has pinned already leaves the usage count alone.
C20_UsageCountOfFirstPin ==
  [][\A p \in Procs, b \in Frames :
       /\ ghost'.pinop.op = "PinBuffer"
       /\ ghost'.pinop.proc = p /\ ghost'.pinop.buf = b
       /\ priv'[p][b] = priv[p][b] + 1
       => /\ usage'[b] <= BM_MAX_USAGE_COUNT
          /\ IF priv[p][b] > 0 THEN usage'[b] = usage[b]
             ELSE IF ghost'.pinop.strategy = NULL_STRATEGY
             THEN usage'[b] = IF usage[b] = BM_MAX_USAGE_COUNT
                              THEN usage[b] ELSE usage[b] + 1
             ELSE /\ usage[b] = 0 => usage'[b] = 1
                  /\ usage[b] > 0 => usage'[b] = usage[b]
                  /\ usage[b] <= 1 => usage'[b] <= 1
    ]_vars

\* C20: a first pin with a ring strategy has found the usage count at its
\* maximum and left it there.
C20_Witness ==
  \E p \in Procs, b \in Frames :
    /\ ghost.pinop = [op |-> "PinBuffer", proc |-> p, buf |-> b,
                      strategy |-> BAS_BULKREAD]
    /\ priv[p][b] = 1 /\ refcount[b] = 2
    /\ usage[b] = BM_MAX_USAGE_COUNT

\* C12: a frame with BM_IO_IN_PROGRESS set has a shared pin count of at
\* least one, and the one process doing the I/O holds a pin on it; this
\* holds also after the I/O has failed, until AbortBufferIO has ended it.
C12_IoInProgressIsPinned ==
  \A f \in Frames :
    BM_IO_IN_PROGRESS \in flags[f] =>
      /\ refcount[f] >= 1
      /\ \E p \in Procs : ghost.io[f] = {p} /\ Pinned(p, f)

\* A read, a write-out or an extension has failed: the process is about to
\* run AbortBufferIO, BM_IO_IN_PROGRESS is still set and so is its pin.
C12_Witness ==
  \E p \in Procs :
    /\ pc[p] = "ERR_abort"
    /\ BM_IO_IN_PROGRESS \in flags[lv[p].buf]
    /\ Pinned(p, lv[p].buf)
    /\ refcount[lv[p].buf] >= 1

\* C13: a frame with BM_DIRTY set has BM_VALID and BM_TAG_VALID set.
C13_DirtyImpliesValid ==
  \A f \in Frames :
    BM_DIRTY \in flags[f] => {BM_VALID, BM_TAG_VALID} \subseteq flags[f]

\* BM_DIRTY of frame f goes from clear to set in this step.
DirtyRises(f) == BM_DIRTY \notin flags[f] /\ BM_DIRTY \in flags'[f]

\* C14, as stated: BM_DIRTY goes from clear to set only in a step of a
\* process that holds a pin on the frame and its content lock in exclusive
\* mode, in MarkBufferDirty and in MarkBufferDirtyHint.
C14_DirtySetUnderExclusiveLock ==
  [][(\A f \in Frames :
        DirtyRises(f) => \E p \in Procs : Pinned(p, f) /\ clockX[f] = p)]_vars

\* C14, amended: BM_DIRTY goes from clear to set only in a MarkBufferDirty
\* of a process that holds a pin and the content lock in exclusive mode, or
\* in a MarkBufferDirtyHint of a process that holds a pin and the content
\* lock in share or exclusive mode.
C14_DirtySetUnderContentLock ==
  [][(\A f \in Frames :
        DirtyRises(f) =>
          \E p \in Procs :
            /\ Pinned(p, f)
            /\ \/ MarkBufferDirty(p) /\ clockX[f] = p
               \/ MarkBufferDirtyHint(p) /\ HoldsContentLock(p, f))]_vars

\* A frame has been dirtied while its only lock holder holds the content
\* lock in share mode.
C14_Witness ==
  \E p \in Procs, f \in Frames :
    /\ {BM_DIRTY, BM_JUST_DIRTIED} \subseteq flags[f]
    /\ Pinned(p, f)
    /\ clockS[f] = {p}
    /\ clockX[f] = NoProc
    /\ ~ghost.ck

\* This step is the AbortBufferIO of process p.
AbortBufferIOStep(p) == pc[p] = "ERR_abort" /\ pc'[p] = "ERR_release"

\* C17: AbortBufferIO leaves the frame with BM_IO_IN_PROGRESS clear and
\* BM_IO_ERROR set and with its BM_DIRTY, its BM_VALID and its tag as they
\* were; nobody who waits for the I/O has to wait any longer; and a
\* StartBufferIO for the work that was not done (a read of a frame that is
\* not valid, a write of a dirty frame) finds no I/O active and returns true.
C17_AbortLeavesRetryableFrame ==
  [][(\A p \in Procs :
        AbortBufferIOStep(p) =>
          LET b == lv[p].buf IN
          /\ BM_IO_IN_PROGRESS \notin flags'[b]
          /\ BM_IO_ERROR \in flags'[b]
          /\ (BM_DIRTY \in flags'[b]) = (BM_DIRTY \in flags[b])
          /\ (BM_VALID \in flags'[b]) = (BM_VALID \in flags[b])
          /\ tag' = tag
          /\ \A q \in Procs :
               pc[q] = "WaitIO" /\ lv[q].buf = b =>
                 /\ pc'[q] = "WaitIO"
                 /\ BM_IO_IN_PROGRESS \notin flags'[lv'[q].buf]
          /\ ~StartBufferIOBusy(flags'[b])
          /\ (IF lv[p].forInput THEN BM_VALID \notin flags[b]
              ELSE BM_DIRTY \in flags[b])
               => StartBufferIOMustDo(flags'[b], lv[p].forInput))]_vars

\* An I/O has failed and AbortBufferIO has ended it while another process
\* waited for it in WaitIO.
C17_Witness ==
  \E p, q \in Procs :
    /\ pc[p] = "ERR_release"
    /\ lv[p].buf # NoBuf
    /\ BM_IO_ERROR \in flags[lv[p].buf]
    /\ BM_IO_IN_PROGRESS \notin flags[lv[p].buf]
    /\ pc[q] = "WaitIO"
    /\ lv[q].buf = lv[p].buf

\* C18: BM_DIRTY of a frame is cleared only by a write-out of the frame
\* that has succeeded; the tag of a frame is cleared only by a process that
\* is alone in pinning it and finds BM_DIRTY clear; an entry leaves the
\* mapping table only after the tag of its frame has been cleared; and a
\* victim found pinned by somebody else or dirty again is given up with its
\* tag and its entry untouched.
C18_EvictionKeepsUnwrittenChanges ==
  [][(/\ \A f \in Frames :
           BM_DIRTY \in flags[f] /\ BM_DIRTY \notin flags'[f] =>
             \E p \in Procs :
               /\ pc[p] = "FB_write" /\ pc'[p] # "ERR_abort"
               /\ lv[p].buf = f
               /\ tag'[f] = tag[f]
               /\ map' = map
      /\ \A f \in Frames :
           tag[f] # NoTag /\ tag'[f] # tag[f] =>
             /\ BM_DIRTY \notin flags[f]
             /\ refcount[f] = 1
             /\ \E p \in Procs :
                  /\ pc[p] = "IVB" /\ pc'[p] = "IVB_delete"
                  /\ lv[p].buf = f /\ Pinned(p, f)
             /\ map' = map
      /\ \A t \in Tags :
           map[t] # NoBuf /\ map'[t] # map[t] =>
             /\ tag[map[t]] = NoTag
             /\ BM_DIRTY \notin flags[map[t]]
             /\ \E p \in Procs : pc[p] = "IVB_delete" /\ lv[p].buf = map[t]
      /\ \A p \in Procs :
           /\ pc[p] = "IVB" /\ pc'[p] # "IVB"
           /\ refcount[lv[p].buf] # 1 \/ BM_DIRTY \in flags[lv[p].buf]
           => pc'[p] = "GVB_unpin" /\ tag' = tag /\ map' = map)]_vars

\* A victim that was dirty when it was chosen has been written out and has
\* had its tag cleared; its entry is about to leave the mapping table.
C18_Witness ==
  \E p \in Procs :
    /\ pc[p] = "IVB_delete"
    /\ lv[p].bdirty
    /\ tag[lv[p].buf] = NoTag
    /\ map[lv[p].otag] = lv[p].buf

\* C15: LockBufferForCleanup returns, and ConditionalLockBufferForCleanup
\* returns true, only from the step in which the caller, holding the content
\* lock in exclusive mode and the header spinlock, finds a pin count of one,
\* its own pin; the content lock is still held when the caller goes on.
\* ConditionalLockBufferForCleanup returns false holding no content lock.
C15_CleanupLockGranted ==
  [][(\A p \in Procs :
        LET b == lv'[p].buf
            Granted == /\ lv[p].buf = b
                       /\ hdrlock[b] = p
                       /\ clockX[b] = p
                       /\ refcount[b] = 1
                       /\ Pinned(p, b)
                       /\ clockX'[b] = p
        IN
        /\ pc[p] # "LBC_ret" /\ pc'[p] = "LBC_ret" => Granted
        /\ pc[p] # "CLC_ret" /\ pc'[p] = "CLC_ret" /\ lv'[p].found => Granted
        /\ pc[p] # "CLC_ret" /\ pc'[p] = "CLC_ret" /\ ~lv'[p].found =>
             clockX'[b] # p /\ p \notin clockS'[b]
        /\ pc[p] = "LBC_ret" \/ (pc[p] = "CLC_ret" /\ lv[p].found) =>
             /\ clockX[lv[p].buf] = p
             /\ pc'[p] = "idle" => clockX'[lv[p].buf] = p
        /\ pc[p] = "CLC_ret" /\ ~lv[p].found =>
             ~HoldsContentLock(p, lv[p].buf))]_vars

\* One process has been granted the cleanup lock on a buffer and another
\* one, which pinned the buffer after that, has been refused it.
C15_Witness ==
  \E p, q \in Procs :
    /\ p # q
    /\ pc[p] = "LBC_ret"
    /\ clockX[lv[p].buf] = p
    /\ pc[q] = "CLC_ret"
    /\ ~lv[q].found
    /\ lv[q].buf = lv[p].buf

\* C16: a LockBufferForCleanup that finds, under the header spinlock, a pin
\* count above one and BM_PIN_COUNT_WAITER set finds it set by another
\* process and goes on to raise the error; when the error is raised the
\* caller holds neither the header spinlock nor the content lock, and
\* neither these steps nor its UnlockBuffers have changed
\* BM_PIN_COUNT_WAITER or wait_backend_pgprocno.
C16_SecondWaiterRaises ==
  [][(\A p \in Procs :
        LET b == lv[p].buf IN
        /\ /\ pc[p] = "LBC_locked" /\ pc'[p] # "LBC_locked"
           /\ refcount[b] > 1
           /\ BM_PIN_COUNT_WAITER \in flags[b]
           => /\ wait_backend_pgprocno[b] # p
              /\ pc'[p] = "LBC_fail"
              /\ hdrlock'[b] # p
              /\ flags' = flags
              /\ wait_backend_pgprocno' = wait_backend_pgprocno
        /\ pc[p] = "LBC_fail" /\ pc'[p] # "LBC_fail"
           => /\ pc'[p] = "ERR_unlockbufs"
              /\ \A f \in Frames : hdrlock'[f] # p
              /\ clockX'[b] # p /\ p \notin clockS'[b]
              /\ flags' = flags
              /\ wait_backend_pgprocno' = wait_backend_pgprocno
        /\ /\ pc[p] \in {"ERR_unlockbufs", "ERR_locked"}
           /\ pc'[p] # pc[p]
           => /\ wait_backend_pgprocno' = wait_backend_pgprocno
              /\ \A f \in Frames :
                   /\ BM_PIN_COUNT_WAITER \in flags[f]
                   /\ wait_backend_pgprocno[f] # p
                   => flags'[f] = flags[f])]_vars

\* The error has been raised: the caller holds no lock, and the waiter it
\* met is still registered and still waiting.
C16_Witness ==
  \E p, q \in Procs :
    /\ p # q
    /\ pc[p] = "ERR_unlockbufs"
    /\ lv[p].op = "cleanup"
    /\ lv[p].waitbuf = NoBuf
    /\ ~HoldsContentLock(p, lv[p].buf)
    /\ refcount[lv[p].buf] > 1
    /\ BM_PIN_COUNT_WAITER \in flags[lv[p].buf]
    /\ wait_backend_pgprocno[lv[p].buf] = q
    /\ pc[q] = "LBC_wait"

\* C19: a process that asks for a mapping-partition lock, a content lock or
\* the relation extension lock, sleeps on the I/O condition variable or
\* waits for its latch holds no header spinlock; a header spinlock is held
\* only inside a section that ends with its release.
C19_LockOrder ==
  /\ \A p \in Procs :
       \/ RequestsPartitionLock(p)
       \/ RequestsContentLock(p)
       \/ RequestsExtensionLock(p)
       \/ SleepsOnIOCV(p)
       \/ WaitsForSignal(p)
       => \A f \in Frames : hdrlock[f] # p
  /\ \A f \in Frames :
       hdrlock[f] # NoProc =>
         /\ pc[hdrlock[f]] \in SpinlockSections
         /\ \A g \in Frames : hdrlock[g] = hdrlock[f] => g = f

\* One process sleeps on the I/O condition variable of a buffer while the
\* process that did the I/O holds the buffer's header spinlock in
\* TerminateBufferIO.
C19_Witness ==
  \E p, q \in Procs :
    /\ pc[p] = "WIO_sleep"
    /\ pc[q] = "TIO_locked"
    /\ lv[q].buf = lv[p].buf
    /\ hdrlock[lv[q].buf] = q

\* ------------------------------------------- every backend reads and extends
\* Reads, also of blocks beyond the end of the file, and extensions by
\* every backend, from the pool InitEvict describes.
NextExtend == \E p \in Procs : ReadSteps(p) \/ ExtendSteps(p)

SpecExtend == InitEvict /\ [][NextExtend]_vars

\* The extension of process p collided with a buffer that was in the mapping
\* table already; lv[p].buf is that buffer.
OnExistingBuffer(p) == lv[p].op = "extend" /\ lv[p].existing

\* C21: ExtendBufferedRelShared on a block that has a buffer already.  The
\* error "unexpected data beyond EOF" is raised only for a buffer that has
\* BM_VALID set, and leaves its flags alone.  Otherwise the victim is put on
\* the free list and unpinned, the existing buffer stays pinned, and from
\* the StartBufferIO that succeeded to TerminateBufferIO the buffer has
\* BM_IO_IN_PROGRESS and not BM_VALID; smgrzeroextend has made the file
\* longer than the block before TerminateBufferIO sets BM_VALID.
C21_GhostBufferExtend ==
  [][\A p \in Procs :
       OnExistingBuffer(p) =>
         LET g == lv[p].buf IN
         /\ pc[p] = "EX_unpin" /\ pc'[p] = "ERR_release" =>
              BM_VALID \in flags[g] /\ flags'[g] = flags[g]
         /\ pc[p] = "EX_free" /\ pc'[p] = "EX_unpin" =>
              InList(freelist', lv[p].vic)
         /\ pc[p] = "EX_unpin" /\ pc'[p] = "EX_ghost" =>
              priv'[p][lv[p].vic] = 0 /\ Pinned(p, g)
         /\ pc[p] \in {"EX_ghost", "SIO", "WaitIO", "EX_next", "EX_term"} =>
              Pinned(p, g)
         /\ pc[p] = "EX_ghost" /\ pc'[p] # "EX_ghost" =>
              BM_VALID \notin flags'[g] /\ pc'[p] = "SIO"
         /\ pc[p] \in {"EX_next", "EX_term"} =>
              /\ BM_IO_IN_PROGRESS \in flags[g]
              /\ BM_VALID \notin flags[g]
              /\ pc'[p] # "idle" => BM_VALID \notin flags'[g]
         /\ pc[p] = "EX_next" /\ pc'[p] = "EX_term" =>
              nblocks' > blockNum(tag[g])
         /\ pc[p] = "EX_term" /\ pc'[p] # "EX_term" =>
              /\ BM_VALID \in flags'[g]
              /\ nblocks > blockNum(tag[g])]_vars

\* ------------------------------ BufferSync: writes balanced over tablespaces
\* A float8 of this model has a significand of MantissaBits bits and is kept
\* as a multiple of 2^-(MantissaBits - 1); every value that occurs here is
\* zero or at least one.  Division and addition round to nearest, ties to
\* even.
Float8Unit == 2 ^ (MantissaBits - 1)

\* The distance between neighbouring float8 values around n units.
RECURSIVE Float8Quantum(_)
Float8Quantum(n) ==
  IF n < 2 * Float8Unit THEN 1 ELSE 2 * Float8Quantum(n \div 2)

RoundHalfEven(num, den) ==
  LET f == num \div den
      r == 2 * (num % den)
  IN  IF r > den \/ (r = den /\ f % 2 = 1) THEN f + 1 ELSE f

\* The float8 nearest to num / den units.
float8(num, den) ==
  LET q == Float8Quantum(num \div den) IN q * RoundHalfEven(num, den * q)

\* Variant: A comparator that makes the heap a max-heap over the progress.
ts_ckpt_progress_comparator_MaxHeap(sa, sb) ==
  IF sa.progress > sb.progress THEN 1
  ELSE IF sa.progress = sb.progress THEN 0 ELSE -1

\* ts_ckpt_progress_comparator: 1 for a < b, for a min-heap.
ts_ckpt_progress_comparator(sa, sb) ==
  IF sa.progress < sb.progress THEN 1
  ELSE IF sa.progress = sb.progress THEN 0 ELSE -1

\* The tablespaces in ts_heap: those with buffers left to process.
ts_heap == {i \in 1..Len(per_ts_stat) :
              per_ts_stat[i].num_scanned < per_ts_stat[i].num_to_scan}

\* binaryheap_first(ts_heap): an element no other one is ahead of.
binaryheap_first(i) ==
  /\ i \in ts_heap
  /\ \A j \in ts_heap :
       ts_ckpt_progress_comparator(per_ts_stat[i], per_ts_stat[j]) >= 0

\* BufferSync has marked and sorted num_to_scan buffers: per_ts_stat gets one
\* entry for every tablespace among them, with its number of buffers and
\* progress_slice = (float8) num_to_scan / ts_stat->num_to_scan.
BufferSync_PerTsStat ==
  /\ per_ts_stat = <<>>
  /\ \E num_spaces \in 1..MaxSpaces :
       \E n \in [1..num_spaces -> 1..MaxPerSpace] :
         LET RECURSIVE Sum(_)
             Sum(k) == IF k = 0 THEN 0 ELSE n[k] + Sum(k - 1)
             num_to_scan == Sum(num_spaces)
         IN  per_ts_stat' =
               [i \in 1..num_spaces |->
                  [tsId |-> i, num_to_scan |-> n[i], num_scanned |-> 0,
                   progress |-> 0,
                   progress_slice |-> float8(num_to_scan * Float8Unit, n[i])]]
  /\ UNCHANGED <<frameVars, map, plock, lockVars, priv, freelist, nextVictim,
                 nblocks, relpersist, extlock, ckpt, zero_damaged_pages,
                 additional_pins, xlog, waitVars, ghost, pc, lv>>

\* BufferSync, one round of the write loop: the buffer of the first
\* tablespace of the heap is processed, written or not, and the tablespace
\* advances by its progress_slice; it leaves the heap with its last buffer.
BufferSync_Balance ==
  /\ \E i \in 1..Len(per_ts_stat) :
       /\ binaryheap_first(i)
       /\ per_ts_stat' =
            [per_ts_stat EXCEPT
               ![i].progress = float8(@ + per_ts_stat[i].progress_slice, 1),
               ![i].num_scanned = @ + 1]
  /\ UNCHANGED <<frameVars, map, plock, lockVars, priv, freelist, nextVictim,
                 nblocks, relpersist, extlock, ckpt, zero_damaged_pages,
                 additional_pins, xlog, waitVars, ghost, pc, lv>>

\* BufferSync, after the loop: pfree(per_ts_stat).
BufferSync_Free ==
  /\ per_ts_stat # <<>>
  /\ ts_heap = {}
  /\ per_ts_stat' = <<>>
  /\ UNCHANGED <<frameVars, map, plock, lockVars, priv, freelist, nextVictim,
                 nblocks, relpersist, extlock, ckpt, zero_damaged_pages,
                 additional_pins, xlog, waitVars, ghost, pc, lv>>

NextBalance == BufferSync_PerTsStat \/ BufferSync_Balance \/ BufferSync_Free

SpecBalance == Init /\ [][NextBalance]_vars

\* The largest progress_slice, and the distance in progress of two
\* tablespaces, in units.
MaxProgressSlice ==
  CHOOSE m \in {per_ts_stat[i].progress_slice : i \in 1..Len(per_ts_stat)} :
    \A i \in 1..Len(per_ts_stat) : per_ts_stat[i].progress_slice <= m

ProgressAhead(a, b) == per_ts_stat[a].progress - per_ts_stat[b].progress

\* C22: while BufferSync balances its writes the tablespace processed next
\* is one of least progress, and the progress of two tablespaces never
\* differs by more than the largest progress_slice.
C22_BalancedProgress ==
  \A a, b \in 1..Len(per_ts_stat) : ProgressAhead(a, b) <= MaxProgressSlice

\* C22 as the float8 arithmetic keeps it: the progress of two tablespaces
\* never differs by more than the largest progress_slice plus the rounding
\* error of one addition, half the distance between neighbouring float8
\* values at the larger progress.
C22_BalancedProgressRounded ==
  \A a, b \in 1..Len(per_ts_stat) :
    2 * ProgressAhead(a, b) <=
      2 * MaxProgressSlice + Float8Quantum(per_ts_stat[a].progress)

\* Three tablespaces with 3, 3 and 4 buffers; one of the first two has been
\* processed completely and the other one is a whole progress_slice behind.
C22_Witness ==
  /\ Len(per_ts_stat) = 3
  /\ \E a, b \in 1..3 :
       /\ per_ts_stat[a].num_scanned = per_ts_stat[a].num_to_scan
       /\ per_ts_stat[a].num_to_scan = 3
       /\ per_ts_stat[b].num_to_scan = 3
       /\ per_ts_stat[b].num_scanned = 2
       /\ ProgressAhead(a, b) >= per_ts_stat[a].progress_slice

\* ------------------------------------------ clock sweep with no victim left
EveryFramePinned == \A b \in Frames : refcount[b] > 0

\* The clock sweep of process p looks at a frame.
ClockSweepTick(p) == pc[p] = "GVB" /\ freelist = <<>> /\ lv'[p] # lv[p]

\* How many pinned frames in a row the sweep of p has found, this one included.
PinnedInARow(p) == NBuffers - lv[p].try + 1

ReadRecentBuffer_Check_PinFirst(p) ==
  /\ pc[p] \in {"RRB_check", "RRB_locked"}
  /\ LET b == lv[p].buf IN
     /\ IF lv[p].found
        THEN /\ priv' = [priv EXCEPT ![p][b] = @ + 1]
             /\ UNCHANGED <<refcount, hdrlock>>
        ELSE /\ PinBuffer_Locked(p, b)
             /\ UnlockBufHdr(p, b)
     /\ Goto(p, IF BM_VALID \in flags[b] /\ tag[b] = lv[p].tag
                THEN "RRB_true" ELSE "RRB_false")
  /\ UNCHANGED <<tag, flags, usage, map, plock, lockVars, freelist,
                 nextVictim, nblocks, relpersist, extlock, ckpt,
                 zero_damaged_pages, per_ts_stat,
                 additional_pins, xlog, wait_backend_pgprocno,
                 latch, iocv, ghost, lv>>

\* ReadRecentBuffer(rlocator, forkNum, blockNum, recent_buffer) for a shared
\* buffer: lv.found is have_private_ref.  Without a private reference the
\* header is locked before the check.
ReadRecentBuffer(p) ==
  /\ pc[p] = "idle"
  /\ \E t \in Tags, b \in Frames :
       /\ priv[p][b] < MaxPins
       /\ Local(p, [NoLocals EXCEPT !.op = "recent", !.tag = t, !.buf = b,
                                     !.found = priv[p][b] > 0])
       /\ Goto(p, IF priv[p][b] > 0 THEN "RRB_check" ELSE "RRB_hdr")
  /\ UNCHANGED <<frameVars, map, plock, lockVars, priv, freelist, nextVictim,
                 envVars, ghost>>

ReadRecentBuffer_LockBufHdr(p) ==
  /\ pc[p] = "RRB_hdr"
  /\ LockBufHdr(p, lv[p].buf)
  /\ Goto(p, "RRB_locked")
  /\ UNCHANGED <<frameVars, map, plock, lockVars, priv, freelist, nextVictim,
                 nblocks, relpersist, extlock, ckpt,
                 zero_damaged_pages, per_ts_stat, additional_pins, xlog,
                 wait_backend_pgprocno, latch, iocv, ghost, lv>>

\* Is it still valid and holding the right tag?  Then it is pinned: with
\* PinBuffer, which finds the private reference and counts it up, or for
\* the first time with PinBuffer_Locked, which releases the spinlock.
\* Else the spinlock, if taken, is released.
ReadRecentBuffer_Check(p) ==
  /\ pc[p] \in {"RRB_check", "RRB_locked"}
  /\ LET b == lv[p].buf IN
     IF BM_VALID \in flags[b] /\ tag[b] = lv[p].tag
     THEN /\ IF lv[p].found
             THEN /\ priv' = [priv EXCEPT ![p][b] = @ + 1]
                  /\ UNCHANGED <<refcount, hdrlock>>
             ELSE /\ PinBuffer_Locked(p, b)
                  /\ UnlockBufHdr(p, b)
          /\ Goto(p, "RRB_true")
     ELSE /\ IF lv[p].found THEN UNCHANGED hdrlock ELSE UnlockBufHdr(p, b)
          /\ Goto(p, "RRB_false")
          /\ UNCHANGED <<refcount, priv>>
  /\ UNCHANGED <<tag, flags, usage, map, plock, lockVars, freelist,
                 nextVictim, nblocks, relpersist, extlock, ckpt,
                 zero_damaged_pages, per_ts_stat,
                 additional_pins, xlog, wait_backend_pgprocno,
                 latch, iocv, ghost, lv>>

\* return true / return false.
ReadRecentBuffer_Return(p) ==
  /\ pc[p] \in {"RRB_true", "RRB_false"}
  /\ Goto(p, "idle")
  /\ Local(p, NoLocals)
  /\ UNCHANGED <<frameVars, map, plock, lockVars, priv, freelist, nextVictim,
                 envVars, ghost>>

RecentSteps(p) ==
  \/ ReadRecentBuffer(p)
  \/ ReadRecentBuffer_LockBufHdr(p)
  \/ ReadRecentBuffer_Check(p)
  \/ ReadRecentBuffer_Return(p)

\* Hints are tried while buffers are read, released and dropped.
NextRecent ==
  \/ \E p \in Procs : RecentSteps(p)
  \/ \E p \in Procs : ReadBuffer_Cached(p) \/ ReadBuffer_Return(p)
  \/ \E p \in Procs : LockBuffer(p) \/ UnlockBuffer(p)
  \/ \E p \in Procs : ReleaseBuffer_Unpin(p)
  \/ \E p \in Procs : UnlockBuffers(p) \/ ErrorRelease_Unpin(p)
  \/ \E p \in Droppers : InvalidateSteps(p)

SpecRecent == InitLockOrder /\ [][NextRecent]_vars

\* The frame of the hint is valid and holds the tag asked for.
RecentBufferMatches(p) ==
  BM_VALID \in flags[lv[p].buf] /\ tag[lv[p].buf] = lv[p].tag

\* C24: ReadRecentBuffer returns false when the hinted buffer is not valid
\* or holds another tag, and then pin counts, usage count and flags are as
\* before and the header spinlock is free of the caller; it returns true
\* only from a check of BM_VALID and the tag that it made under the header
\* spinlock, or with a pin of its own on the buffer, and then the caller
\* holds one pin more on the buffer than before.
C24_ReadRecentBuffer ==
  [][\A p \in Procs :
       LET b == lv[p].buf IN
       /\ pc[p] = "RRB_hdr" => priv[p][b] = 0
       /\ pc[p] = "RRB_check" => Pinned(p, b) /\ hdrlock[b] # p
       /\ pc[p] = "RRB_locked" => hdrlock[b] = p /\ priv[p][b] = 0
       /\ pc[p] \in {"RRB_check", "RRB_locked"} /\ pc'[p] # pc[p] =>
            /\ hdrlock'[b] # p
            /\ usage' = usage /\ flags' = flags /\ tag' = tag
            /\ IF RecentBufferMatches(p)
               THEN /\ pc'[p] = "RRB_true"
                    /\ priv'[p][b] = priv[p][b] + 1
                    /\ refcount'[b] >= 1
                    /\ refcount'[b] = refcount[b] + (IF Pinned(p, b) THEN 0
                                                     ELSE 1)
               ELSE /\ pc'[p] = "RRB_false"
                    /\ refcount' = refcount /\ priv' = priv
       /\ pc'[p] = "RRB_true" /\ pc[p] # "RRB_true" =>
            pc[p] \in {"RRB_check", "RRB_locked"}
       /\ pc[p] = "RRB_true" =>
            Pinned(p, b) /\ refcount[b] >= 1 /\ hdrlock[b] # p
       /\ pc[p] = "RRB_false" => hdrlock[b] # p]_vars

\* One process was told that its hint still holds the block and has the
\* pin, the other one that its hint is stale: the buffer it named is free or
\* holds another block.
C24_Witness ==
  \E p, q \in Procs :
    /\ pc[p] = "RRB_true" /\ priv[p][lv[p].buf] = 1
    /\ pc[q] = "RRB_false" /\ ~lv[q].found
    /\ tag[lv[q].buf] # lv[q].tag

\* ------------------------------------------------------ LimitAdditionalPins
REFCOUNT_ARRAY_ENTRIES == 8

\* Variant: A limit that may come out as zero or less.
LimitAdditionalPins_NoMinimum(pins, nbuffers, max_backends, overflowed) ==
  IF pins <= 1 THEN pins
  ELSE LET max_proportional_pins ==
             (nbuffers \div max_backends)
               - (overflowed + REFCOUNT_ARRAY_ENTRIES)
       IN  IF pins > max_proportional_pins
           THEN max_proportional_pins ELSE pins

\* LimitAdditionalPins(&additional_pins): the value left in *additional_pins,
\* for NBuffers = nbuffers, MaxBackends + NUM_AUXILIARY_PROCS = max_backends
\* and PrivateRefCountOverflowed = overflowed.  None of the operations can
\* leave the range of its C type: the quotient is at most NBuffers, the
\* subtrahend small, and the comparison sees a limit of at least one.
LimitAdditionalPins(pins, nbuffers, max_backends, overflowed) ==
  IF pins <= 1 THEN pins
  ELSE LET max_proportional_pins ==
             (nbuffers \div max_backends)
               - (overflowed + REFCOUNT_ARRAY_ENTRIES)
           limit == IF max_proportional_pins <= 0
                    THEN 1 ELSE max_proportional_pins
       IN  IF pins > limit THEN limit ELSE pins

\* ExtendBufferedRelShared is called with extend_by > 0 blocks to add, in a
\* server of some size and a backend with some pins in the overflow table.
ExtendBufferedRelShared_ExtendBy ==
  /\ additional_pins = NoCall
  /\ \E k \in 1..MaxExtendBy, n \in 1..MaxSharedBuffers,
        m \in 1..MaxMaxBackends, o \in 0..MaxOverflowed :
       additional_pins' =
         [pc |-> "call", extend_by |-> k, value |-> k, NBuffers |-> n,
          max_backends |-> m, PrivateRefCountOverflowed |-> o]
  /\ UNCHANGED <<frameVars, map, plock, lockVars, priv, freelist, nextVictim,
                 nblocks, relpersist, extlock, ckpt, zero_damaged_pages,
                 per_ts_stat, xlog, waitVars, ghost, pc, lv>>

\* LimitAdditionalPins(&extend_by).
ExtendBufferedRelShared_Limit ==
  /\ additional_pins.pc = "call"
  /\ additional_pins' =
       [additional_pins EXCEPT
          !.pc = "victims",
          !.value = LimitAdditionalPins(@, additional_pins.NBuffers,
                      additional_pins.max_backends,
                      additional_pins.PrivateRefCountOverflowed)]
  /\ UNCHANGED <<frameVars, map, plock, lockVars, priv, freelist, nextVictim,
                 nblocks, relpersist, extlock, ckpt, zero_damaged_pages,
                 per_ts_stat, xlog, waitVars, ghost, pc, lv>>

\* The loop over i < extend_by has taken its victims.
ExtendBufferedRelShared_Victims ==
  /\ additional_pins.pc = "victims"
  /\ additional_pins' = NoCall
  /\ UNCHANGED <<frameVars, map, plock, lockVars, priv, freelist, nextVictim,
                 nblocks, relpersist, extlock, ckpt, zero_damaged_pages,
                 per_ts_stat, xlog, waitVars, ghost, pc, lv>>

NextLimit ==
  \/ ExtendBufferedRelShared_ExtendBy
  \/ ExtendBufferedRelShared_Limit
  \/ ExtendBufferedRelShared_Victims

SpecLimit == Init /\ [][NextLimit]_vars

Min(a, b) == IF a < b THEN a ELSE b
Max(a, b) == IF a > b THEN a ELSE b

\* C25: the number of victim buffers ExtendBufferedRelShared takes for a
\* request of k blocks is min(k, max(1, NBuffers / max_backends
\* - (8 + PrivateRefCountOverflowed))), which is at least 1 and at most k; a
\* k of 1 is left as it is.
C25_LimitAdditionalPins ==
  additional_pins.pc = "victims" =>
    LET k == additional_pins.extend_by
        v == additional_pins.value
    IN  /\ v = Min(k, Max(1, (additional_pins.NBuffers
                                \div additional_pins.max_backends)
                             - (8 + additional_pins.PrivateRefCountOverflowed)))
        /\ v >= 1
        /\ v <= k
        /\ k <= 1 => v = k

\* A request for five blocks was cut to the proportional share of the
\* backend, which is between the minimum of one and the request.
C25_Witness ==
  /\ additional_pins.pc = "victims"
  /\ additional_pins.extend_by = MaxExtendBy
  /\ additional_pins.value > 1
  /\ additional_pins.value < additional_pins.extend_by
  /\ additional_pins.PrivateRefCountOverflowed > 0

\* ------------------------------------------- dirtied again during a write
\* C26: a buffer that is dirtied again after FlushBuffer cleared
\* BM_JUST_DIRTIED and before its TerminateBufferIO has BM_JUST_DIRTIED and
\* BM_DIRTY set from then on, and TerminateBufferIO leaves it BM_DIRTY, with
\* BM_CHECKPOINT_NEEDED if that was set; a buffer that was not dirtied again
\* is left without BM_DIRTY, and BM_DIRTY goes away in no other case.
C26_DirtiedAgainStaysDirty ==
  [][\A p \in Procs :
       pc[p] = "FB_write" =>
         LET b == lv[p].buf
             fl == flags[b]
             fl2 == flags'[b]
         IN  /\ BM_JUST_DIRTIED \notin fl /\ BM_JUST_DIRTIED \in fl2 =>
                  BM_DIRTY \in fl2 /\ pc'[p] = "FB_write"
             /\ BM_JUST_DIRTIED \in fl /\ pc'[p] = "FB_write" =>
                  BM_JUST_DIRTIED \in fl2 /\ BM_DIRTY \in fl2
             /\ pc'[p] \notin {"FB_write", "ERR_abort"} =>
                  /\ BM_IO_IN_PROGRESS \notin fl2
                  /\ IF BM_JUST_DIRTIED \in fl
                     THEN /\ BM_DIRTY \in fl2 /\ BM_JUST_DIRTIED \in fl2
                          /\ BM_CHECKPOINT_NEEDED \in fl
                               => BM_CHECKPOINT_NEEDED \in fl2
                     ELSE BM_DIRTY \notin fl2
             /\ BM_DIRTY \in fl /\ BM_DIRTY \notin fl2 =>
                  pc'[p] # "FB_write" /\ BM_JUST_DIRTIED \notin fl]_vars

\* The checkpointer is writing a buffer that a backend has dirtied again
\* since the write began.
C26_Witness ==
  \E p \in Procs :
    /\ pc[p] = "FB_write" /\ lv[p].op = "sync"
    /\ {BM_DIRTY, BM_JUST_DIRTIED, BM_CHECKPOINT_NEEDED, BM_IO_IN_PROGRESS}
         \subseteq flags[lv[p].buf]

\* --------------------------------------------- what GetVictimBuffer returns
\* Process p is inside GetVictimBuffer, FlushBuffer on the victim included.
InGetVictimBuffer(p) ==
  \/ pc[p] \in {"GVB", "GVB_dirty", "GVB_unpin", "IVB", "IVB_delete"}
  \/ pc[p] \in {"SIO", "WaitIO", "FB_lsn", "FB_write"} /\ lv[p].fctx = "gvb"

\* GetVictimBuffer returns to its caller in this step.
GetVictimBufferReturns(p) ==
  InGetVictimBuffer(p) /\ pc'[p] \in {"BA_insert", "EX_victim"}

PageSetLSN(p) ==
  /\ pc[p] = "idle"
  /\ \E b \in Frames :
       /\ Pinned(p, b) /\ clockX[b] = p /\ BM_DIRTY \in flags[b]
       /\ IF BM_PERMANENT \in flags[b]
          THEN /\ xlog.insert < MaxLSN
               /\ xlog' = [xlog EXCEPT !.insert = @ + 1,
                                       !.lsn[b] = xlog.insert + 1]
          ELSE \E fake \in (xlog.lsn[b] + 1)..MaxLSN :
                 xlog' = [xlog EXCEPT !.lsn[b] = fake]
  /\ UNCHANGED <<frameVars, map, plock, lockVars, priv, freelist, nextVictim,
                 nblocks, relpersist, extlock, ckpt, zero_damaged_pages,
                 per_ts_stat, additional_pins, waitVars, ghost, pc, lv>>

\* Backends change, log, dirty and flush the pages of a relation.
WalSteps(p) ==
  \/ ReadBuffer_Unpinned(p)
  \/ ReadBuffer_Return(p)
  \/ ReleaseBuffer(p)
  \/ LockBuffer(p)
  \/ UnlockBuffer(p)
  \/ MarkBufferDirty(p)
  \/ PageSetLSN(p)
  \/ FlushOneBuffer(p)
  \/ FlushBuffer_XLogFlush(p)

NextWal == \E p \in Procs : WalSteps(p) \/ FlushSteps(p)

SpecWal == InitSync /\ [][NextWal]_vars

\* Process p is at the smgrwrite of FlushBuffer and takes it in this step.
SmgrWrites(p) == pc[p] = "FB_write" /\ pc'[p] \notin {"FB_write", "ERR_abort"}

\* C28: FlushBuffer reads the page LSN in the step that holds the header
\* spinlock; for a buffer with BM_PERMANENT the WAL is flushed up to that
\* LSN when smgrwrite is called, and for a buffer without BM_PERMANENT
\* FlushBuffer flushes no WAL.
C28_WalBeforeData ==
  [][\A p \in Procs :
       LET b == lv[p].buf IN
       /\ pc[p] = "FB_lsn" /\ pc'[p] # "FB_lsn" =>
            /\ lv'[p].recptr = xlog.lsn[b]
            /\ BM_JUST_DIRTIED \notin flags'[b]
       /\ pc[p] \in {"FB_xlog", "FB_write"} /\ pc'[p] \in {"FB_xlog", "FB_write"}
            => lv'[p].recptr = lv[p].recptr
       /\ SmgrWrites(p) /\ BM_PERMANENT \in flags[b] =>
            xlog.flush >= lv[p].recptr
       /\ pc[p] \in {"FB_lsn", "FB_xlog", "FB_write"} /\ lv'[p] # lv[p]
          /\ BM_PERMANENT \notin flags[b] =>
            xlog' = xlog /\ pc'[p] # "FB_xlog"]_vars

\* A permanent page is about to be written whose LSN was beyond the flushed
\* WAL when FlushBuffer read it.
C28_Witness ==
  \E p \in Procs :
    /\ pc[p] = "FB_write" /\ BM_PERMANENT \in flags[lv[p].buf]
    /\ lv[p].recptr = MaxLSN /\ xlog.flush = MaxLSN

\* A page of an unlogged relation with a fake LSN is about to be written,
\* and no WAL was flushed.
C28_WitnessUnlogged ==
  \E p \in Procs :
    /\ pc[p] = "FB_write" /\ BM_PERMANENT \notin flags[lv[p].buf]
    /\ lv[p].recptr > 0 /\ xlog.flush = 0

\* ----------------------------------------- RBM_ZERO_AND_LOCK and its kin
\* ReadBufferExtended with mode RBM_ZERO_AND_LOCK or
\* RBM_ZERO_AND_CLEANUP_LOCK.
ReadBuffer_ZeroAndLock(p) ==
  \E mode \in {RBM_ZERO_AND_LOCK, RBM_ZERO_AND_CLEANUP_LOCK} :
    ReadBuffer_common(p, mode)

ZeroSteps(p) ==
  \/ ReadBuffer_ZeroAndLock(p)
  \/ ReadBuffer_Zero(p)
  \/ ReadBuffer_Zero_Terminate(p)
  \/ ReadBuffer_Found_Lock(p)
  \/ ReadBuffer_Found_Cleanup(p)
  \/ UnlockBuffer(p)

NextZero == \E p \in Procs : ReadSteps(p) \/ ZeroSteps(p)

SpecZero == Init /\ [][NextZero]_vars

ZeroMode(p) == lv[p].op = "read" /\ lv[p].mode # RBM_NORMAL

\* C29: a ReadBuffer_common in RBM_ZERO_AND_LOCK or RBM_ZERO_AND_CLEANUP_LOCK
\* mode that did not find the buffer holds the content lock exclusively
\* when it sets BM_VALID, so that nobody else holds the lock of the valid
\* zeroed page until the caller releases it; one that found the buffer
\* returns with the exclusive lock as well, in cleanup mode as the only
\* holder of a pin.
C29_ZeroedPageLockedBeforeValid ==
  [][\A p \in Procs :
       ZeroMode(p) =>
         LET b == lv[p].buf IN
         /\ pc[p] = "RB_read" /\ pc'[p] \notin {"RB_read", "ERR_abort"} =>
              /\ pc'[p] = "RB_valid" /\ clockX'[b] = p
              /\ BM_VALID \notin flags'[b] /\ BM_IO_IN_PROGRESS \in flags'[b]
         /\ pc[p] = "RB_valid" =>
              /\ clockX[b] = p /\ clockX'[b] = p /\ clockS'[b] = {}
              /\ BM_VALID \notin flags[b]
              /\ pc'[p] # "RB_valid" =>
                   BM_VALID \in flags'[b] /\ pc'[p] = "RB_ret"
         /\ pc[p] = "RB_ret" /\ ~lv[p].found =>
              clockX[b] = p /\ clockX'[b] = p /\ priv'[p][b] > 0
         /\ pc[p] = "RB_ret" /\ lv[p].found /\ pc'[p] = "idle" =>
              /\ clockX'[b] = p /\ clockS'[b] = {} /\ priv'[p][b] > 0
              /\ lv[p].mode = RBM_ZERO_AND_CLEANUP_LOCK => refcount'[b] = 1]_vars

\* A backend has zeroed a page it did not find and marked it valid, and
\* another backend that asked for the same page is held up by its lock.
C29_Witness ==
  \E p, q \in Procs :
    /\ p # q
    /\ ZeroMode(p) /\ pc[p] = "RB_ret" /\ ~lv[p].found
    /\ BM_VALID \in flags[lv[p].buf] /\ clockX[lv[p].buf] = p
    /\ ZeroMode(q) /\ pc[q] = "RB_ret" /\ lv[q].found
    /\ lv[q].buf = lv[p].buf

\* ------------------------------------ extension: order of the steps (C30)
\* Process p is in ExtendBufferedRelShared between the installation of the
\* mapping entry of its block and the call of smgrzeroextend.
ExtendingBeforeZeroExtend(p) ==
  /\ lv[p].op = "extend"
  /\ pc[p] \in {"SIO", "WaitIO", "EX_next"}

\* C30: in ExtendBufferedRelShared the mapping entry of the new block is
\* installed and BM_IO_IN_PROGRESS is set on its frame when smgrzeroextend
\* is called; the extension sets BM_VALID only in TerminateBufferIO, after
\* smgrzeroextend has made the file longer than the block and the extension
\* lock has been released; and from the mapping entry to smgrzeroextend the
\* frame is not BM_VALID, so that no reader of the block returns from
\* ReadBuffer with it.
C30_ValidOnlyAfterZeroExtend ==
  [][\A p \in Procs :
       lv[p].op = "extend" =>
         /\ pc[p] = "EX_next" =>
              /\ BufTableLookup(lv[p].tag) = lv[p].buf
              /\ BM_IO_IN_PROGRESS \in flags[lv[p].buf]
         /\ pc[p] = "EX_term" /\ pc'[p] # "EX_term" =>
              /\ blockNum(lv[p].tag) < nblocks
              /\ extlock # p
              /\ BM_IO_IN_PROGRESS \in flags[lv[p].buf]
         /\ ExtendingBeforeZeroExtend(p) =>
              /\ BM_VALID \notin flags[lv[p].buf]
              /\ \A q \in Procs \ {p} :
                   lv[q].op = "read" /\ lv[q].tag = lv[p].tag =>
                     pc[q] # "RB_ret"]_vars

\* ------------------------------------- cleanup lock: the wake-up (C31)
\* ProcWaitForSignal sleeps until the latch of the process is set; the latch
\* stays set from ProcSendSignal until the sleeper resets it.
ProcWaitForSignal(p) ==
  /\ p \in latch
  /\ LockBufferForCleanup_Wait(p)

\* The steps a process decides to take: a new pin, a content lock, a
\* release, a cleanup lock.
WakeChoices(p) ==
  \/ ReadBuffer_Cached(p)
  \/ ReleaseBuffer_Unpin(p)
  \/ LockBuffer(p)
  \/ UnlockBuffer(p)
  \/ LockBufferForCleanup(p)

\* The steps of an operation under way, which a running process takes as
\* soon as it can.
WakeProgress(p) ==
  \/ ReadBuffer_Return(p)
  \/ UnpinBuffer_LockBufHdr(p)
  \/ UnpinBuffer_WakeWaiter(p)
  \/ LockBufferForCleanup_LockBuffer(p)
  \/ LockBufferForCleanup_LockBufHdr(p)
  \/ LockBufferForCleanup_Check(p)
  \/ LockBufferForCleanup_Error(p)
  \/ LockBufferForCleanup_Unlock(p)
  \/ ProcWaitForSignal(p)
  \/ LockBufferForCleanup_ReLockBufHdr(p)
  \/ LockBufferForCleanup_ClearWaiter(p)
  \/ LockBufferForCleanup_Return(p)
  \/ UnlockBuffers(p)
  \/ ErrorRelease_Unpin(p)

NextWake == \E p \in Procs : WakeChoices(p) \/ WakeProgress(p)

\* Every process that is in the middle of an operation goes on with it.
SpecWake ==
  /\ InitLockOrder
  /\ [][NextWake]_vars
  /\ \A p \in Procs : WF_vars(WakeProgress(p))

\* Process p has set BM_PIN_COUNT_WAITER and sleeps in ProcWaitForSignal.
SleepsForPinCount(p) == pc[p] = "LBC_wait" /\ lv[p].waitbuf # NoBuf

\* No process other than p pins a buffer.
OthersUnpinned(p) ==
  \A q \in Procs \ {p} : \A f \in Frames : priv[q][f] = 0

\* No process other than p is in LockBufferForCleanup.
OnlyCleaner(p) == \A q \in Procs \ {p} : lv[q].op # "cleanup"

\* C31, as stated: if from some time on no process other than p holds a
\* pin, then a process p that set BM_PIN_COUNT_WAITER and sleeps in
\* ProcWaitForSignal, which only the signal of UnpinBuffer ends, returns
\* from LockBufferForCleanup.
C31_WaiterWakesUp ==
  \A p \in Procs :
    <>[]OthersUnpinned(p) =>
      (SleepsForPinCount(p) ~> pc[p] = "LBC_ret")

\* C31, amended: under the same condition the sleeper is woken and either
\* returns from LockBufferForCleanup or finds the BM_PIN_COUNT_WAITER of
\* another process and raises the error; it returns if no other process
\* ever asks for a cleanup lock.
C31_WaiterWakesUpOrRaises ==
  \A p \in Procs :
    /\ <>[]OthersUnpinned(p) =>
         (SleepsForPinCount(p) ~> pc[p] \in {"LBC_ret", "LBC_fail"})
    /\ <>[]OthersUnpinned(p) /\ []OnlyCleaner(p) =>
         (SleepsForPinCount(p) ~> pc[p] = "LBC_ret")

\* The waiter has just been woken by the UnpinBuffer that left its pin as
\* the only one: the flag is cleared, the latch reset, and nobody but the
\* waiter has ever cleared or reset them.
C31_Witness ==
  \E p \in Procs :
    /\ pc[p] = "LBC_rehdr"
    /\ lv[p].waitbuf = lv[p].buf
    /\ refcount[lv[p].buf] = 1
    /\ BM_PIN_COUNT_WAITER \notin flags[lv[p].buf]
    /\ wait_backend_pgprocno[lv[p].buf] = p
    /\ p \notin latch
    /\ OthersUnpinned(p)

\* ------------------------------------------- waiting for an I/O (C32)
\* The steps a process decides to take: a pin, a content lock, a change of
\* the page, a write, a release.
IOWaitChoices(p) ==
  \/ ReadBuffer_Cached(p)
  \/ ReleaseBuffer_Unpin(p)
  \/ LockBuffer(p)
  \/ UnlockBuffer(p)
  \/ MarkBufferDirty_Unlocked(p)
  \/ FlushOneBuffer(p)

\* The steps of an operation under way: StartBufferIO, WaitIO, the write
\* and TerminateBufferIO, and the error cleanup after a failed write.
IOWaitProgress(p) ==
  \/ ReadBuffer_Return(p)
  \/ StartBufferIO_LockBufHdr(p)
  \/ StartBufferIO_Check(p)
  \/ WaitIO_PrepareToSleep(p)
  \/ WaitIO_LockBufHdr(p)
  \/ WaitIO_Check(p)
  \/ WaitIO_Sleep(p)
  \/ FlushBuffer_LockBufHdr(p)
  \/ FlushBuffer_ClearJustDirtied_Locked(p)
  \/ FlushBuffer_SmgrWrite(p)
  \/ TerminateBufferIO_LockBufHdr(p)
  \/ TerminateBufferIO_Locked(p)
  \/ TerminateBufferIO_Broadcast(p)
  \/ UnlockBuffers(p)
  \/ ErrorRelease_Unpin(p)

NextIOWait == \E p \in Procs : IOWaitChoices(p) \/ IOWaitProgress(p)

\* A process in the middle of an operation goes on with it, and gets the
\* header spinlock if it is free again and again.
SpecIOWait ==
  /\ InitLockOrder
  /\ [][NextIOWait]_vars
  /\ \A p \in Procs : SF_vars(IOWaitProgress(p))

\* Process p is in WaitIO.
InWaitIO(p) == pc[p] \in {"WIO_prep", "WIO", "WIO_locked", "WIO_sleep"}

\* No I/O is in progress on any buffer.
NoIOInProgress == \A f \in Frames : BM_IO_IN_PROGRESS \notin flags[f]

FrameUntouched(f) ==
  /\ tag'[f] = tag[f] /\ flags'[f] = flags[f]
  /\ usage'[f] = usage[f] /\ refcount'[f] = refcount[f]
  /\ map' = map /\ freelist' = freelist

\* Process p holds no mapping partition lock after the step.
NoPartitionLock(p) ==
  \A k \in 0..(NUM_BUFFER_PARTITIONS - 1) : plock'[k] # p

\* C33: InvalidateBuffer, having taken the exclusive partition lock and the
\* header spinlock again, leaves the frame untouched and returns if the tag
\* is not the one it saved; with a pin count other than zero it releases
\* the locks, raises an error for a pin of its own and else waits in WaitIO
\* and retries; otherwise it clears the tag, all flags and the usage count,
\* then deletes the mapping entry if BM_TAG_VALID was set, releases the
\* partition lock and puts the frame on the free list.
C33_InvalidateBuffer ==
  [][\A p \in Procs :
       LET b == lv[p].buf
           t == lv[p].otag
       IN
       /\ pc[p] = "IB_retry" /\ pc'[p] # "IB_retry" =>
            IF tag[b] # t
            THEN /\ FrameUntouched(b)
                 /\ NoPartitionLock(p)
                 /\ pc'[p] = AfterInvalidateBuffer(p)
            ELSE IF refcount[b] # 0
            THEN /\ FrameUntouched(b)
                 /\ NoPartitionLock(p)
                 /\ pc'[p] = IF priv[p][b] > 0 THEN "ERR_release"
                             ELSE "WaitIO"
            ELSE /\ tag'[b] = NoTag
                 /\ flags'[b] \cap BUF_FLAG_MASK = {}
                 /\ usage'[b] = 0
                 /\ refcount'[b] = 0
                 /\ plock'[Part(t)] = p
                 /\ lv'[p].btagvalid = (BM_TAG_VALID \in flags[b])
                 /\ pc'[p] = "IB_delete"
       /\ lv[p].op = "drop" /\ pc[p] = "WaitIO" /\ pc'[p] # "WaitIO" =>
            /\ pc'[p] = "IB_retry"
            /\ lv'[p] = lv[p]
       /\ pc[p] = "IB_delete" /\ pc'[p] # "IB_delete" =>
            /\ lv[p].btagvalid => map'[t] = NoBuf
            /\ ~lv[p].btagvalid => map' = map
            /\ NoPartitionLock(p)
            /\ pc'[p] = "IB_free"
       /\ pc[p] = "IB_free" /\ pc'[p] # "IB_free" =>
            InList(freelist', b)]_vars

\* InvalidateBuffer has cleared a frame that was in the mapping table,
\* deleted its entry and released the partition lock; the frame is not on
\* the free list yet.
C33_Witness ==
  \E p \in Procs :
    /\ pc[p] = "IB_free"
    /\ lv[p].btagvalid
    /\ map[lv[p].otag] = NoBuf
    /\ tag[lv[p].buf] = NoTag
    /\ flags[lv[p].buf] = {}
    /\ usage[lv[p].buf] = 0
    /\ ~InList(freelist, lv[p].buf)
    /\ \A k \in 0..(NUM_BUFFER_PARTITIONS - 1) : plock[k] # p

\* ------------------------------------------------------------------------
\* DropRelationBuffers: the strategy it chooses, for any sizes and pool.

\* The sequences of n BlockNumbers drawn from S.
BlockNumbers(n, S) == [1..n -> S]

\* DropRelationBuffers is called for one to MaxForks forks, each with a
\* first block to delete and a size that smgrnblocks_cached knows or does
\* not know, in a server of 16 to MaxDropBuffers buffers.
DropRelationBuffers_Forks(p) ==
  /\ pc[p] = "idle"
  /\ \E nforks \in 1..MaxForks, n \in 16..MaxDropBuffers :
       \E sizes \in BlockNumbers(nforks, 0..InvalidBlockNumber),
          firsts \in BlockNumbers(nforks, 0..(InvalidBlockNumber - 1)) :
         Local(p, [NoLocals EXCEPT !.op = "drop", !.first = firsts[1],
                     !.nForkBlock = sizes, !.firstDelBlock = firsts,
                     !.nbuffers = n])
  /\ Goto(p, "DR_strategy")
  /\ UNCHANGED <<frameVars, map, plock, lockVars, priv, freelist, nextVictim,
                 envVars, ghost>>

\* The strategy chosen has run, in an empty pool, and DropRelationBuffers
\* returns.
DropRelationBuffers_Return(p) ==
  /\ pc[p] \in {"FD_loop", "DR_scan"}
  /\ Goto(p, "idle")
  /\ Local(p, NoLocals)
  /\ UNCHANGED <<frameVars, map, plock, lockVars, priv, freelist, nextVictim,
                 envVars, ghost>>

NextStrategy ==
  \E p \in Droppers :
    \/ DropRelationBuffers_Forks(p)
    \/ DropRelationBuffers_Strategy(p)
    \/ DropRelationBuffers_Return(p)

SpecStrategy == Init /\ [][NextStrategy]_vars

AllSizesKnown(nForkBlock) ==
  \A i \in 1..Len(nForkBlock) : nForkBlock[i] # InvalidBlockNumber

\* The blocks from the first block to delete up to the size, over the forks.
RECURSIVE BlocksToInvalidate(_, _)
BlocksToInvalidate(nForkBlock, firstDelBlock) ==
  IF nForkBlock = <<>> THEN 0
  ELSE (Head(nForkBlock) - Head(firstDelBlock))
         + BlocksToInvalidate(Tail(nForkBlock), Tail(firstDelBlock))

\* The same with every difference taken in BlockNumber, as the program
\* computes it: a first block beyond the size wraps around.
RECURSIVE BlocksToInvalidateUnsigned(_, _)
BlocksToInvalidateUnsigned(nForkBlock, firstDelBlock) ==
  IF nForkBlock = <<>> THEN 0
  ELSE ((Head(nForkBlock) - Head(firstDelBlock)) % (2^BlockNumberBits))
         + BlocksToInvalidateUnsigned(Tail(nForkBlock), Tail(firstDelBlock))

\* C35, as stated: DropRelationBuffers looks the blocks up in the mapping
\* table exactly when the sizes of all forks are known and the number of
\* blocks to invalidate is at most NBuffers / 32, and scans the pool
\* otherwise.
C35_LookupUpToThreshold ==
  [][\A p \in Procs :
       pc[p] = "DR_strategy" /\ pc'[p] # "DR_strategy" =>
         /\ pc'[p] \in {"FD_loop", "DR_scan"}
         /\ pc'[p] = "FD_loop" <=>
              /\ AllSizesKnown(lv[p].nForkBlock)
              /\ 32 * BlocksToInvalidate(lv[p].nForkBlock,
                                         lv[p].firstDelBlock)
                   <= lv[p].nbuffers]_vars

\* C35, amended: DropRelationBuffers looks the blocks up exactly when the
\* sizes of all forks are known and the number of blocks to invalidate, the
\* differences taken in BlockNumber, is less than NBuffers / 32 rounded
\* down; with a number equal to it, and in every other case, it scans the
\* pool.
C35_LookupBelowThreshold ==
  [][\A p \in Procs :
       pc[p] = "DR_strategy" /\ pc'[p] # "DR_strategy" =>
         /\ pc'[p] \in {"FD_loop", "DR_scan"}
         /\ pc'[p] = "FD_loop" <=>
              /\ AllSizesKnown(lv[p].nForkBlock)
              /\ BlocksToInvalidateUnsigned(lv[p].nForkBlock,
                                            lv[p].firstDelBlock)
                   < lv[p].nbuffers \div 32]_vars

\* DropRelationBuffers scans the pool for two forks of known size whose
\* blocks to invalidate number exactly NBuffers / 32.
C35_Witness ==
  \E p \in Procs :
    /\ pc[p] = "DR_scan"
    /\ Len(lv[p].nForkBlock) = 2
    /\ AllSizesKnown(lv[p].nForkBlock)
    /\ \A i \in 1..2 : lv[p].nForkBlock[i] > lv[p].firstDelBlock[i]
    /\ 32 * BlocksToInvalidate(lv[p].nForkBlock, lv[p].firstDelBlock)
         = lv[p].nbuffers

\* ------------------------------------------------------------------------
\* DropRelationBuffers while nobody loads pages of the relation.

\* No other backend is in ReadBuffer or in ExtendBufferedRelShared.
NobodyLoads == \A q \in Procs \ Droppers : pc[q] = "idle"

\* A DropRelationBuffers is under way.
DropUnderWay == \E q \in Droppers : pc[q] # "idle"

\* DropRelationBuffers with the size of the fork unknown or cached; its
\* caller sees to it that nobody is loading pages of the relation.
DropRelSteps(p) ==
  \/ NobodyLoads /\ DropRelationBuffers(p)
  \/ NobodyLoads /\ DropRelationBuffers_Cached(p)
  \/ DropRelationBuffers_Strategy(p)
  \/ DropRelationBuffers_Scan(p)
  \/ FindAndDropRelationBuffers(p)
  \/ FindAndDropRelationBuffers_Check(p)
  \/ InvalidateBuffer(p)
  \/ InvalidateBuffer_Delete(p)
  \/ InvalidateBuffer_Free(p)
  \/ WaitIO(p)

\* The other backends read, evict, extend and modify pages; while a
\* DropRelationBuffers is under way they load no page but go on modifying
\* and releasing the buffers they have pinned.
NextDropRel ==
  \/ \E p \in Procs \ Droppers :
       ~DropUnderWay /\ (EvictSteps(p) \/ ExtendSteps(p))
  \/ \E p \in Procs \ Droppers : ModifySteps(p) \/ ReleaseBuffer(p)
  \/ \E p \in Droppers : DropRelSteps(p)

SpecDropRel == Init /\ [][NextDropRel]_vars

\* Frame f holds a page of the fork at or after block first.
InDroppedRange(f, first) == tag[f] # NoTag /\ blockNum(tag[f]) >= first

\* DropRelationBuffers of p returns in this step.
DropRelationBuffersReturns(p) ==
  /\ lv[p].op = "drop"
  /\ pc[p] \in {"DR_scan", "FD_loop"}
  /\ pc'[p] = "idle"

\* A step of the DropRelationBuffers of p.
DropRelationBuffersStep(p) ==
  /\ lv[p].op = "drop"
  /\ pc'[p] # pc[p] \/ lv'[p] # lv[p]

\* When the DropRelationBuffers of p returns no frame holds a page at or
\* after the first block to delete.
DroppedRangeGone(p) ==
  DropRelationBuffersReturns(p) =>
    \A f \in Frames : ~InDroppedRange(f, lv[p].first)

\* The same for the pages FindAndDropRelationBuffers looks up, those below
\* the cached size of the fork.
CachedRangeGone(p) ==
  DropRelationBuffersReturns(p) =>
    \A f \in Frames :
      InDroppedRange(f, lv[p].first) =>
        lv[p].lookup /\ blockNum(tag[f]) >= lv[p].nForkBlock[1]

\* No step of the DropRelationBuffers of p changes a frame that holds
\* another tag, or its mapping entry.
OtherFramesKept(p) ==
  DropRelationBuffersStep(p) =>
    \A f \in Frames :
      tag[f] # NoTag /\ ~InDroppedRange(f, lv[p].first) =>
        /\ tag'[f] = tag[f] /\ flags'[f] = flags[f]
        /\ usage'[f] = usage[f] /\ refcount'[f] = refcount[f]
        /\ map'[tag[f]] = map[tag[f]]

\* The DropRelationBuffers of p starts no I/O and writes nothing, and the
\* step that invalidates a dirty buffer drops BM_DIRTY with every other
\* flag.
DirtyDiscarded(p) ==
  DropRelationBuffersStep(p) =>
    /\ pc'[p] \notin {"SIO", "FB_write"}
    /\ xlog' = xlog /\ ghost' = ghost
    /\ \A f \in Frames :
         BM_DIRTY \in flags[f] /\ BM_DIRTY \notin flags'[f] =>
           flags'[f] = {} /\ tag'[f] = NoTag

\* C34: when DropRelationBuffers returns, nobody having loaded pages of the
\* relation meanwhile, no frame holds a page of the fork at or after the
\* first block to delete, whether the blocks were looked up or the pool was
\* scanned; no step of it changes a frame with another tag; dirty pages in
\* the range are dropped and not written.
C34_DropRelationBuffers ==
  [][\A p \in Droppers :
       DroppedRangeGone(p) /\ OtherFramesKept(p) /\ DirtyDiscarded(p)]_vars

\* What DropRelationBuffers does achieve: after the scan no frame holds a
\* page at or after the first block, after the lookups none between the
\* first block and the cached size; the rest as above.
DropRelationBuffers_UpToCachedSize ==
  [][\A p \in Droppers :
       CachedRangeGone(p) /\ OtherFramesKept(p) /\ DirtyDiscarded(p)]_vars

\* The lookups are over and a frame still holds a page at or after the
\* first block to delete, left there by a read that failed.
DropRelationBuffers_LeftBehind ==
  \E p \in Droppers, f \in Frames :
    /\ pc[p] = "FD_loop" /\ lv[p].i >= lv[p].nForkBlock[1]
    /\ InDroppedRange(f, lv[p].first)
    /\ BM_TAG_VALID \in flags[f] /\ BM_VALID \notin flags[f]

\* InvalidateBuffer is about to clear a dirty buffer nobody has pinned.
DropRelationBuffers_DropsDirty ==
  \E p \in Droppers :
    /\ pc[p] = "IB_retry"
    /\ tag[lv[p].buf] = lv[p].otag
    /\ refcount[lv[p].buf] = 0
    /\ BM_DIRTY \in flags[lv[p].buf]

\* ------------------------------------------------------------------------
\* GetVictimBuffer and the content lock (C36).

\* p is in GetVictimBuffer with a dirty candidate pinned whose content lock
\* it does not hold.
EvictorAtContentLock(p) == pc[p] \in {"GVB_dirty", "GVB_unpin"}

\* C36: a backend in GetVictimBuffer that has pinned a dirty candidate is
\* never kept waiting for the content lock: its next step can always be
\* taken.  That step takes the share lock if no one holds the lock
\* exclusively; else it takes no lock, and the step after it drops the pin
\* and goes back to StrategyGetBuffer with no candidate.
C36_NoWaitForContentLock ==
  /\ [](\A p \in Procs :
          EvictorAtContentLock(p) =>
            ENABLED (GetVictimBuffer_Dirty(p) \/ GetVictimBuffer_Unpin(p)))
  /\ [][\A p \in Procs :
          LET b == lv[p].buf IN
          /\ pc[p] = "GVB_dirty" /\ pc'[p] # "GVB_dirty" =>
               IF clockX[b] = NoProc
               THEN p \in clockS'[b] /\ pc'[p] = "SIO"
               ELSE /\ pc'[p] = "GVB_unpin"
                    /\ clockS'[b] = clockS[b] /\ clockX'[b] = clockX[b]
          /\ pc[p] = "GVB_unpin" /\ pc'[p] # "GVB_unpin" =>
               /\ priv'[p][b] = 0
               /\ refcount'[b] = refcount[b] - 1
               /\ pc'[p] = "GVB" /\ lv'[p].buf = NoBuf]_vars

\* A backend found the content lock of its dirty candidate held exclusively
\* by another backend and is about to give the candidate up.
C36_Witness ==
  \E p \in Procs, q \in Procs :
    /\ p # q
    /\ pc[p] = "GVB_unpin"
    /\ lv[p].bdirty
    /\ priv[p][lv[p].buf] > 0
    /\ clockX[lv[p].buf] = q

\* ------------------------------------------------------------------------
\* Withdrawing a pin-count request (C37).

\* Process p is recorded as the one waiting for the pin count of frame f.
RecordedAsWaiter(p, f) ==
  BM_PIN_COUNT_WAITER \in flags[f] /\ wait_backend_pgprocno[f] = p

\* C37: the step of LockBufferForCleanup after the wait and the step of
\* UnlockBuffers (error cleanup, process exit) clear BM_PIN_COUNT_WAITER of
\* the frame in PinCountWaitBuf exactly if the flag is set and
\* wait_backend_pgprocno names the caller, and change no other flag;
\* neither clears the flag of a frame on which another process is recorded;
\* after either of them PinCountWaitBuf is unset and the caller is recorded
\* as waiter on no frame.
C37_ClearsOwnWaiterFlagOnly ==
  [][\A p \in Procs :
       pc[p] \in {"LBC_clear", "ERR_locked"} /\ pc'[p] # pc[p] =>
         LET b == lv[p].waitbuf IN
         /\ b # NoBuf
         /\ IF RecordedAsWaiter(p, b)
            THEN flags'[b] = flags[b] \ {BM_PIN_COUNT_WAITER}
            ELSE flags'[b] = flags[b]
         /\ \A f \in Frames :
              (\E q \in Procs \ {p} : RecordedAsWaiter(q, f)) =>
                /\ flags'[f] = flags[f]
                /\ wait_backend_pgprocno'[f] = wait_backend_pgprocno[f]
         /\ lv'[p].waitbuf = NoBuf
         /\ \A f \in Frames :
              ~(/\ BM_PIN_COUNT_WAITER \in flags'[f]
                /\ wait_backend_pgprocno'[f] = p)]_vars

\* A process woken from its wait finds BM_PIN_COUNT_WAITER set for another
\* process that has asked for the cleanup lock in the meantime.
C37_Witness ==
  \E p, q \in Procs :
    /\ p # q
    /\ pc[p] = "LBC_clear"
    /\ RecordedAsWaiter(q, lv[p].waitbuf)
    /\ pc[q] \in {"LBC_unlock", "LBC_wait"}

\* ------------------------------------------------------------------------
\* The header spinlock and the compare-and-swap updates (C38).

\* The state word of frame b is the same after the step.
StateWordUnchanged(b) ==
  /\ refcount'[b] = refcount[b]
  /\ usage'[b] = usage[b]
  /\ flags'[b] = flags[b]

\* C38: a process is between LockBufHdr and UnlockBufHdr exactly when it
\* owns the spinlock of a frame; the spinlock is taken only when free and
\* released only by a step of its owner; and as long as it is held no step
\* of any process changes the pin count, the usage count or a flag of the
\* frame, so that what the owner read when it took the spinlock is what it
\* overwrites when it releases it.
C38_NoLostUpdate ==
  /\ [](\A p \in Procs :
          pc[p] \in SpinlockSections <=> \E b \in Frames : hdrlock[b] = p)
  /\ [][\A b \in Frames :
          /\ hdrlock[b] # NoProc /\ hdrlock'[b] = hdrlock[b] =>
               StateWordUnchanged(b)
          /\ hdrlock'[b] # hdrlock[b] =>
               hdrlock[b] = NoProc \/ hdrlock'[b] = NoProc
          /\ hdrlock[b] # NoProc /\ hdrlock'[b] = NoProc =>
               pc'[hdrlock[b]] # pc[hdrlock[b]]]_vars

\* A process owns the spinlock of a frame that another process, holding
\* the content lock exclusively, is about to mark dirty, and that a third
\* party could pin or unpin.
C38_Witness ==
  \E p, q \in Procs, b \in Frames :
    /\ p # q
    /\ hdrlock[b] = p
    /\ pc[q] = "idle"
    /\ clockX[b] = q
    /\ priv[q][b] = 1
    /\ BM_DIRTY \notin flags[b]

\* ------------------------------------------------------------------------
\* PinBuffer and UnpinBuffer, the shared and the local count as separate
\* steps (C39).  No process waits for a pin count here.

\* Variant: A PinBuffer that raises the shared count on a repeated pin, too.
PinBuffer_Shared_EveryPin(p) ==
  /\ pc[p] = "idle"
  /\ \E b \in Frames, strategy \in {NULL_STRATEGY, BAS_BULKREAD} :
       /\ priv[p][b] < MaxPins
       /\ refcount' = [refcount EXCEPT ![b] = @ + 1]
       /\ usage' = [usage EXCEPT ![b] = PinBufferUsage(@, strategy)]
       /\ Local(p, [NoLocals EXCEPT !.op = "pin", !.buf = b])
  /\ Goto(p, "PB_count")
  /\ UNCHANGED <<tag, flags, map, plock, lockVars, priv, freelist,
                 nextVictim, envVars, ghost>>

\* PinBuffer(buf, strategy) up to the compare-and-swap: without an entry of
\* its own for the buffer the process raises the shared count and the usage
\* count; with one it leaves the state word alone.
PinBuffer_Shared(p) ==
  /\ pc[p] = "idle"
  /\ \E b \in Frames, strategy \in {NULL_STRATEGY, BAS_BULKREAD} :
       /\ priv[p][b] < MaxPins
       /\ IF priv[p][b] = 0
          THEN /\ refcount' = [refcount EXCEPT ![b] = @ + 1]
               /\ usage' = [usage EXCEPT ![b] = PinBufferUsage(@, strategy)]
          ELSE UNCHANGED <<refcount, usage>>
       /\ Local(p, [NoLocals EXCEPT !.op = "pin", !.buf = b])
  /\ Goto(p, "PB_count")
  /\ UNCHANGED <<tag, flags, map, plock, lockVars, priv, freelist,
                 nextVictim, envVars, ghost>>

\* PinBuffer_Locked(buf), for a buffer the caller has no pin on: the shared
\* count is raised in the write that releases the spinlock.
PinBuffer_Locked_Shared(p) ==
  /\ pc[p] = "idle"
  /\ \E b \in Frames :
       /\ priv[p][b] = 0
       /\ refcount' = [refcount EXCEPT ![b] = @ + 1]
       /\ Local(p, [NoLocals EXCEPT !.op = "pin", !.buf = b])
  /\ Goto(p, "PB_count")
  /\ UNCHANGED <<tag, flags, usage, map, plock, lockVars, priv, freelist,
                 nextVictim, envVars, ghost>>

\* PinBuffer, PinBuffer_Locked: ref->refcount++.
PinBuffer_Count(p) ==
  /\ pc[p] = "PB_count"
  /\ priv' = [priv EXCEPT ![p][lv[p].buf] = @ + 1]
  /\ Goto(p, "idle")
  /\ Local(p, NoLocals)
  /\ UNCHANGED <<frameVars, map, plock, lockVars, freelist, nextVictim,
                 envVars, ghost>>

\* UnpinBuffer: ref->refcount--; at zero the shared count is next.
UnpinBuffer_Count(p) ==
  /\ pc[p] = "idle"
  /\ \E b \in Frames :
       /\ priv[p][b] > 0
       /\ priv' = [priv EXCEPT ![p][b] = @ - 1]
       /\ IF priv[p][b] = 1
          THEN /\ Goto(p, "UB_shared")
               /\ Local(p, [NoLocals EXCEPT !.op = "unpin", !.buf = b])
          ELSE UNCHANGED <<pc, lv>>
  /\ UNCHANGED <<frameVars, map, plock, lockVars, freelist, nextVictim,
                 envVars, ghost>>

\* UnpinBuffer: the compare-and-swap that lowers the shared count; with
\* BM_PIN_COUNT_WAITER in the new state word the header spinlock is next.
UnpinBuffer_Shared(p) ==
  /\ pc[p] = "UB_shared"
  /\ refcount' = [refcount EXCEPT ![lv[p].buf] = @ - 1]
  /\ IF BM_PIN_COUNT_WAITER \in flags[lv[p].buf]
     THEN /\ Goto(p, "UB_hdr")
          /\ UNCHANGED lv
     ELSE /\ Goto(p, "idle")
          /\ Local(p, NoLocals)
  /\ UNCHANGED <<tag, flags, usage, map, plock, lockVars, priv, freelist,
                 nextVictim, envVars, ghost>>

NextPinSteps ==
  \E p \in Procs :
    \/ PinBuffer_Shared(p)
    \/ PinBuffer_Locked_Shared(p)
    \/ PinBuffer_Count(p)
    \/ IncrBufferRefCount(p)
    \/ UnpinBuffer_Count(p)
    \/ UnpinBuffer_Shared(p)

SpecPinSteps == InitPin /\ [][NextPinSteps]_vars

\* Process p is between the two counts of a pin or an unpin of frame f.
MidPinOrUnpin(p, f) ==
  pc[p] \in {"PB_count", "UB_shared"} /\ lv[p].buf = f

\* The processes that hold a pin on frame f.
Pinners(f) == {p \in Procs : priv[p][f] > 0}

\* C39: for a frame on which no pin or unpin is under way the shared pin
\* count is the number of processes whose local count is above zero.  The
\* shared count changes by one at a time; it rises only in a pin by a
\* process whose local count is zero, and falls only in an unpin by a
\* process whose local count has come down to zero.  A pin or an
\* IncrBufferRefCount by a process that has the frame pinned leaves the
\* pin count, the usage count and the flags as they are.
C39_SharedCountCountsPinners ==
  /\ [](\A f \in Frames :
          (\A p \in Procs : ~MidPinOrUnpin(p, f)) =>
            refcount[f] = Cardinality(Pinners(f)))
  /\ [][\A f \in Frames :
          /\ refcount'[f] \in
               {refcount[f] - 1, refcount[f], refcount[f] + 1}
          /\ refcount'[f] = refcount[f] + 1 =>
               \E p \in Procs :
                 /\ priv[p][f] = 0
                 /\ pc[p] = "idle" /\ pc'[p] = "PB_count"
                 /\ lv'[p].buf = f
          /\ refcount'[f] = refcount[f] - 1 =>
               \E p \in Procs :
                 /\ priv[p][f] = 0
                 /\ pc[p] = "UB_shared" /\ pc'[p] # "UB_shared"
                 /\ lv[p].buf = f
          /\ \A p \in Procs :
               /\ priv[p][f] > 0
               /\ \/ pc[p] = "idle" /\ pc'[p] = "PB_count" /\ lv'[p].buf = f
                  \/ priv'[p][f] > priv[p][f]
               => StateWordUnchanged(f)]_vars

\* Nobody is pinning or unpinning; one process holds two pins on a frame,
\* the other process one, and the shared count is two.
C39_Witness ==
  \E p, q \in Procs, f \in Frames :
    /\ p # q
    /\ \A r \in Procs : pc[r] = "idle"
    /\ priv[p][f] = 2 /\ priv[q][f] = 1
    /\ ghost.start.priv[p][f] = 0
    /\ refcount[f] = 2

\* ------------------------------------------------------------------------
\* BM_CHECKPOINT_NEEDED and BM_DIRTY (C40).  A backend reads, evicts, dirties
\* and drops the buffers of a relation of NBlocks blocks while the
\* checkpointer runs BufferSync.  The frames in HeldFrames are out of play:
\* a backend outside the model has taken each of them as its victim
\* (GetVictimBuffer: pinned, no tag) and keeps it, so that the relation has
\* more blocks than the pool has frames for it and reads evict.
HeldFrames == {f \in Frames : f < NBuffers}

InitMark ==
  /\ tag = [f \in Frames |-> NoTag]
  /\ flags = [f \in Frames |-> {}]
  /\ refcount = [f \in Frames |-> IF f \in HeldFrames THEN 1 ELSE 0]
  /\ usage = [f \in Frames |-> 0]
  /\ map = [t \in Tags |-> NoBuf]
  /\ plock = [k \in 0..(NUM_BUFFER_PARTITIONS - 1) |-> NoProc]
  /\ clockX = [f \in Frames |-> NoProc]
  /\ clockS = [f \in Frames |-> {}]
  /\ priv = [p \in Procs |-> [f \in Frames |-> 0]]
  /\ freelist = <<>>
  /\ nextVictim = 0
  /\ nblocks = NBlocks
  /\ relpersist \in {RELPERSISTENCE_PERMANENT, RELPERSISTENCE_UNLOGGED}
  /\ extlock = NoProc
  /\ ckpt = <<>>
  /\ zero_damaged_pages = FALSE
  /\ per_ts_stat = <<>>
  /\ additional_pins = NoCall
  /\ xlog = NoWal
  /\ hdrlock = [f \in Frames |-> NoProc]
  /\ wait_backend_pgprocno = [f \in Frames |-> NoProc]
  /\ latch = {}
  /\ iocv = [f \in Frames |-> {}]
  /\ ghost = NoCheckpoint([io |-> [f \in Frames |-> {}]])
  /\ pc = [p \in Procs |-> "idle"]
  /\ lv = [p \in Procs |-> NoLocals]

BackendSteps(p) ==
  \/ ReadBuffer_Unpinned(p)
  \/ StrategyGetBuffer(p)
  \/ GetVictimBuffer_Dirty(p)
  \/ GetVictimBuffer_Unpin(p)
  \/ InvalidateVictimBuffer(p)
  \/ InvalidateVictimBuffer_Delete(p)
  \/ BufferAlloc_Insert(p)
  \/ BufferAlloc_SetTag(p)
  \/ ReadBuffer_Read(p)
  \/ ReadBuffer_Return(p)
  \/ ReleaseBuffer(p)
  \/ LockBuffer(p)
  \/ UnlockBuffer(p)
  \/ MarkBufferDirty(p)

NextMark ==
  \/ \E p \in Backends : BackendSteps(p) \/ DropSteps(p)
  \/ \E p \in Checkpointer : SyncSteps(p)
  \/ \E p \in Procs : FlushSteps(p)

SpecMark == InitMark /\ [][NextMark]_vars

\* C40: a frame with BM_CHECKPOINT_NEEDED has BM_DIRTY.  The flag is set
\* only by the mark loop of BufferSync and only on a frame that is dirty,
\* and a step that clears BM_DIRTY leaves BM_CHECKPOINT_NEEDED clear.
C40_CheckpointNeededImpliesDirty ==
  /\ [](\A f \in Frames :
          BM_CHECKPOINT_NEEDED \in flags[f] => BM_DIRTY \in flags[f])
  /\ [][\A f \in Frames :
          /\ BM_CHECKPOINT_NEEDED \in flags'[f] \ flags[f] =>
               /\ BM_DIRTY \in flags[f]
               /\ \E p \in Procs : pc[p] = "BS_mark" /\ lv[p].i = f
                                    /\ lv'[p].i = f + 1
          /\ BM_DIRTY \in flags[f] \ flags'[f] =>
               BM_CHECKPOINT_NEEDED \notin flags'[f]]_vars

\* The checkpointer is in its flush loop and has yet to come to a frame it
\* marked; the frame has lost BM_DIRTY and BM_CHECKPOINT_NEEDED meanwhile.
C40_Witness ==
  \E p \in Checkpointer, f \in Frames :
    /\ pc[p] = "BS_flush"
    /\ \E k \in lv[p].i..Len(ckpt) : ckpt[k].buf_id = f
    /\ BM_DIRTY \notin flags[f]
    /\ BM_CHECKPOINT_NEEDED \notin flags[f]

\* As above, the frame having been emptied by InvalidateBuffer.
C40_WitnessInvalidated ==
  \E p \in Checkpointer, f \in Frames :
    /\ pc[p] = "BS_flush"
    /\ \E k \in lv[p].i..Len(ckpt) : ckpt[k].buf_id = f
    /\ tag[f] = NoTag
    /\ flags[f] = {}

\* As above, the frame having been evicted and given to another block.
C40_WitnessEvicted ==
  \E p \in Checkpointer, f \in Frames :
    /\ pc[p] = "BS_flush"
    /\ \E k \in lv[p].i..Len(ckpt) :
         /\ ckpt[k].buf_id = f
         /\ tag[f] # NoTag
         /\ blockNum(tag[f]) # ckpt[k].blockNum
    /\ BM_CHECKPOINT_NEEDED \notin flags[f]

====
